---- MODULE Spec2Model ----
(***************************************************************************)
(* Verification model of the Stratos trading bot's position risk manager:  *)
(*   PaperTrader         (src/paper_trader.py)    the virtual ledger       *)
(*   Trader              (src/trader.py)          live trades and monitors *)
(*   PriceTracker        (src/price_tracker.py)   trailing stop tracker    *)
(*   TelegramCopyTrader  (src/telegram_client.py) the signal path          *)
(*                                                                         *)
(* Python floats are modelled as exact rationals <<n, d>> in lowest terms  *)
(* with d > 0.  Prices are in units of 1e-6 USD and token amounts in units *)
(* of 1e6 tokens, so that amount * price is in USD.                        *)
(***************************************************************************)
EXTENDS Integers, Sequences, FiniteSets, Bags, TLC

(***************************************************************************)
(* Exact rational arithmetic.                                              *)
(***************************************************************************)
Abs(x) == IF x < 0 THEN -x ELSE x

RECURSIVE GCD(_, _)
GCD(a, b) == IF b = 0 THEN a ELSE GCD(b, a % b)

\* n/d in lowest terms, d > 0
Norm(n, d) ==
    LET g == GCD(Abs(n), Abs(d))
        s == IF d < 0 THEN -1 ELSE 1
    IN <<(s * n) \div g, (s * d) \div g>>

R(n, d) == Norm(n, d)
Zero == <<0, 1>>
One == <<1, 1>>
Hundred == <<100, 1>>

RAdd(a, b) ==
    LET g == GCD(a[2], b[2])
    IN Norm(a[1] * (b[2] \div g) + b[1] * (a[2] \div g), (a[2] \div g) * b[2])
RNeg(a) == <<-a[1], a[2]>>
RSub(a, b) == RAdd(a, RNeg(b))
RMul(a, b) ==
    LET g1 == GCD(Abs(a[1]), b[2])
        g2 == GCD(Abs(b[1]), a[2])
    IN Norm((a[1] \div g1) * (b[1] \div g2), (a[2] \div g2) * (b[2] \div g1))
RInv(a) == IF a[1] < 0 THEN <<-a[2], -a[1]>> ELSE <<a[2], a[1]>>
RDiv(a, b) == RMul(a, RInv(b))
RLt(a, b) == RSub(a, b)[1] < 0
RLe(a, b) == RSub(a, b)[1] <= 0
RGt(a, b) == RLt(b, a)
RGe(a, b) == RLe(b, a)
RMax(a, b) == IF RLt(a, b) THEN b ELSE a
RMin(a, b) == IF RLt(a, b) THEN a ELSE b
\* x percent as a fraction: x / 100
Pct(x) == RDiv(x, Hundred)

(***************************************************************************)
(* Bounds of the model and the input domains.                              *)
(***************************************************************************)
\* the clock runs over 0..MaxTime (seconds)
MaxTime == 1
\* uuid4 values are drawn as 1..MaxUuid; every open and every close uses one
MaxUuid == 2

\* A token address is a sequence of characters; a character is 0..15 for a
\* hexadecimal digit and 16..35 for the other letters g..z.  The model's
\* addresses have four characters (the source's have 40 or more).
Tokens == { <<10, 11, 12, 1>>, <<10, 11, 12, 2>>, <<1, 2, 3, 4>> }
\* 1 + fluctuation + time_based_trend of _get_current_price, within [0.8, 1.2]
PriceFactors == { R(4, 5), R(6, 5) }
\* parameters a signal message can carry (SignalParser.extract_trade_parameters)
EmptyDict == [k \in {} |-> Zero]
SignalParams ==
    { EmptyDict,
      [position_size |-> Zero],
      [position_size |-> R(150, 1), stop_loss |-> R(10, 1)] }
\* outcomes of writing the snapshot file
SaveOutcomes == {"ok", "open_failed", "write_failed"}

(***************************************************************************)
(* Strings of comma separated fields: a field is <<"num", v>> when float() *)
(* parses it to v and <<"bad", 0>> when float() raises ValueError.         *)
(***************************************************************************)
DefaultTpString == << <<"num", 20>>, <<"num", 40>>, <<"num", 100>> >>
BadTpString == << <<"num", 20>>, <<"bad", 0>> >>
EmptyString == << >>
UnsortedTpString == << <<"num", 40>>, <<"num", 20>>, <<"num", 100>> >>
TpStrings == {DefaultTpString, BadTpString, EmptyString}

\* [float(level) for level in s.split(',')]: the levels, or an exception
ParseLevels(s) ==
    IF \E i \in 1..Len(s) : s[i][1] = "bad"
    THEN [ok |-> FALSE, levels |-> << >>]
    ELSE [ok |-> TRUE, levels |-> [i \in 1..Len(s) |-> s[i][2]]]

DefaultLevels == <<20, 40, 100>>

\* d.get(k, default)
Get(d, k, default) == IF k \in DOMAIN d THEN d[k] ELSE default

(***************************************************************************)
(* PaperTrader: token helpers                                              *)
(***************************************************************************)
IsHex(c) == c \in 0..15
UNK == <<20, 13, 10>>
Prefix(s, n) == SubSeq(s, 1, IF Len(s) < n THEN Len(s) ELSE n)

\* _get_token_symbol: the first three characters as letters; "UNK" for an
\* empty address or when int(c, 16) raises
GetTokenSymbol(token_address) ==
    IF Len(token_address) = 0 THEN UNK
    ELSE LET p == Prefix(token_address, 3)
         IN IF \E i \in 1..Len(p) : ~IsHex(p[i]) THEN UNK
            ELSE [i \in 1..Len(p) |-> p[i] % 26]

\* _get_token_name: the first four characters as letters
GetTokenName(token_address) ==
    IF Len(token_address) = 0 THEN <<"Unknown">>
    ELSE LET p == Prefix(token_address, 4)
         IN IF \E i \in 1..Len(p) : ~IsHex(p[i]) THEN <<"Unknown">>
            ELSE <<[i \in 1..Len(p) |-> p[i] % 26]>>

RECURSIVE HexVal(_)
HexVal(s) == IF Len(s) = 0 THEN 0 ELSE 16 * HexVal(SubSeq(s, 1, Len(s) - 1)) + s[Len(s)]

\* the last eight characters (the model's addresses are shorter)
Suffix8(s) == SubSeq(s, IF Len(s) > 8 THEN Len(s) - 7 ELSE 1, Len(s))

\* _get_current_price: base price from the address, times the random factor;
\* 0.0001 USD (100 units) when int(.., 16) raises
GetCurrentPrice(token_address, factor) ==
    IF Len(token_address) > 0 /\ \E i \in 1..Len(Suffix8(token_address)) : ~IsHex(Suffix8(token_address)[i])
    THEN R(100, 1)
    ELSE LET price_seed == IF Len(token_address) > 0
                           THEN R(HexVal(Suffix8(token_address)), 10000)
                           ELSE R(100, 1)
             base_price == RMax(One, price_seed)
         IN RMul(base_price, factor)

\* random.uniform(a, b) returns a value between its arguments, whichever is
\* the larger; the model draws it from SlippageDraws
SlippageDraws == { R(5, 1) }
InUniformRange(u, a, b) == RLe(RMin(a, b), u) /\ RLe(u, RMax(a, b))
\* min(random.uniform(0.1, max_slippage), max_slippage) / 100
Slippage(u, max_slippage) == Pct(RMin(u, max_slippage))

\* 0.25% fee
FeePercentage == R(1, 4)

(***************************************************************************)
(* PaperTrader: persistence.  The file is absent, corrupt (a truncated     *)
(* json document) or holds the data last dumped.                           *)
(***************************************************************************)
FileAbsent == [kind |-> "absent", data |-> << >>]
FileCorrupt == [kind |-> "corrupt", data |-> << >>]

\* a plausible slip: the mode flags are written as their defaults
SnapshotOf_DefaultMode(L) ==
    [virtual_balance |-> L.virtual_balance,
     positions |-> L.positions,
     trade_history |-> L.trade_history,
     started_at |-> L.started_at,
     trading_parameters |-> L.trading_parameters,
     paused |-> FALSE,
     auto_execution |-> TRUE]

\* the dict _save_data dumps
SnapshotOf(L) ==
    [virtual_balance |-> L.virtual_balance,
     positions |-> L.positions,
     trade_history |-> L.trade_history,
     started_at |-> L.started_at,
     trading_parameters |-> L.trading_parameters,
     paused |-> L.paused,
     auto_execution |-> L.auto_execution]

\* a plausible slip: a file that cannot be parsed is never written over
SaveData_KeepsCorrupt(L, file, outcome) ==
    CASE file.kind = "corrupt" -> file
      [] outcome = "ok" -> [kind |-> "data", data |-> SnapshotOf(L)]
      [] outcome = "open_failed" -> file
      [] OTHER -> FileCorrupt

\* _save_data: open(.., 'w') truncates the file, json.dump writes it; every
\* exception is logged and swallowed
SaveData(L, file, outcome) ==
    CASE outcome = "ok" -> [kind |-> "data", data |-> SnapshotOf(L)]
      [] outcome = "open_failed" -> file
      [] OTHER -> FileCorrupt

\* a plausible slip: the parameters of the configuration win over the saved ones
LoadData_ConfigParameters(L, file, t) ==
    IF file.kind # "data" THEN L
    ELSE [virtual_balance |-> Get(file.data, "virtual_balance", L.virtual_balance),
          positions |-> Get(file.data, "positions", [s \in {} |-> << >>]),
          trade_history |-> Get(file.data, "trade_history", << >>),
          started_at |-> Get(file.data, "started_at", t),
          trading_parameters |-> L.trading_parameters,
          paused |-> Get(file.data, "paused", FALSE),
          auto_execution |-> Get(file.data, "auto_execution", TRUE)]

\* _load_data into the object __init__ has set up (L), at time t: nothing
\* when the file is absent, nothing when json.load raises (the exception is
\* logged and swallowed), else every field by its key with its default
LoadData(L, file, t) ==
    IF file.kind # "data" THEN L
    ELSE [virtual_balance |-> Get(file.data, "virtual_balance", L.virtual_balance),
          positions |-> Get(file.data, "positions", [s \in {} |-> << >>]),
          trade_history |-> Get(file.data, "trade_history", << >>),
          started_at |-> Get(file.data, "started_at", t),
          trading_parameters |-> Get(file.data, "trading_parameters", L.trading_parameters),
          paused |-> Get(file.data, "paused", FALSE),
          auto_execution |-> Get(file.data, "auto_execution", TRUE)]

(***************************************************************************)
(* PaperTrader.execute_paper_trade                                         *)
(*   env = [factor, draw, uuid, now, save]: the random price factor, the   *)
(*   random slippage draw, the uuid4, time.time() and the save's outcome.  *)
(*   The result of a call that saved also tells how the save ended.        *)
(***************************************************************************)
Failure(op, args, error) ==
    [op |-> op, args |-> args, success |-> FALSE, error |-> error]

\* a plausible slip: the amount is checked against twice the balance
InsufficientBalance_Doubled(trade_amount_usd, virtual_balance) ==
    RGt(trade_amount_usd, RMul(virtual_balance, R(2, 1)))

\* if trade_amount_usd > self.virtual_balance
InsufficientBalance(trade_amount_usd, virtual_balance) ==
    RGt(trade_amount_usd, virtual_balance)

\* a plausible slip: only the pause is looked at
ModeRefusal_PausedOnly(L) == IF L.paused THEN "paused" ELSE ""

\* the two early returns of execute_paper_trade: the error, or "" to go on
ModeRefusal(L) ==
    IF L.paused THEN "paused"
    ELSE IF ~L.auto_execution THEN "auto_execution_disabled"
    ELSE ""

ExecutePaperTrade(L, file, token_address, trade_params, env) ==
    LET args == [token_address |-> token_address, trade_params |-> trade_params]
    IN
    IF ModeRefusal(L) # ""
    THEN [L |-> L, file |-> file, ret |-> Failure("execute_paper_trade", args, ModeRefusal(L))]
    ELSE
    LET trade_id == env.uuid
        position_size == Get(trade_params, "position_size", L.trading_parameters.position_size)
        stop_loss == Get(trade_params, "stop_loss", L.trading_parameters.initial_sl)
        take_profit_str == L.trading_parameters.take_profit_levels
        parsed == ParseLevels(take_profit_str)
        take_profit_levels ==
            IF Len(take_profit_str) > 0 /\ parsed.ok THEN parsed.levels ELSE DefaultLevels
        current_price == GetCurrentPrice(token_address, env.factor)
        trade_amount_usd == RMul(L.virtual_balance, Pct(position_size))
        token_amount == RDiv(trade_amount_usd, current_price)
        slippage == Slippage(env.draw, L.trading_parameters.max_slippage)
        execution_price == RMul(current_price, RAdd(One, slippage))
        fee_amount == RMul(trade_amount_usd, Pct(FeePercentage))
        actual_trade_amount == RSub(trade_amount_usd, fee_amount)
        actual_token_amount == RDiv(actual_trade_amount, execution_price)
    IN
    IF InsufficientBalance(trade_amount_usd, L.virtual_balance)
    THEN [L |-> L, file |-> file, ret |-> Failure("execute_paper_trade", args, "insufficient_balance")]
    ELSE
    LET paper_trade ==
            [trade_id |-> trade_id,
             token_address |-> token_address,
             token_name |-> GetTokenName(token_address),
             entry_time |-> env.now,
             entry_price |-> execution_price,
             amount |-> actual_token_amount,
             value_usd |-> actual_trade_amount,
             fee_usd |-> fee_amount,
             stop_loss_price |-> RMul(execution_price, RSub(One, Pct(stop_loss))),
             take_profit_levels |-> take_profit_levels,
             status |-> "open",
             slippage |-> RMul(slippage, Hundred),
             type |-> "buy"]
        symbol == GetTokenSymbol(token_address)
        L2 == [L EXCEPT
                 !.virtual_balance = RSub(L.virtual_balance, trade_amount_usd),
                 !.positions = [s \in DOMAIN L.positions \cup {symbol} |->
                                   IF s = symbol THEN paper_trade ELSE L.positions[s]],
                 !.trade_history = Append(L.trade_history, paper_trade)]
    IN [L |-> L2,
        file |-> SaveData(L2, file, env.save),
        ret |-> [op |-> "execute_paper_trade", args |-> args, success |-> TRUE,
                 error |-> "", save |-> env.save, trade_id |-> trade_id, price |-> execution_price,
                 amount |-> actual_token_amount, value_usd |-> actual_trade_amount,
                 fee_usd |-> fee_amount, stop_loss_price |-> paper_trade.stop_loss_price,
                 take_profit_levels |-> take_profit_levels]]

(***************************************************************************)
(* PaperTrader.close_paper_position                                        *)
(*   ident = [kind |-> "symbol" or "trade_id", v |-> ..]; given_price is   *)
(*   << >> for None or <<p>>; env as for execute_paper_trade               *)
(***************************************************************************)
\* a plausible slip: an identifier that matches nothing falls back to the
\* positions at hand
FindPosition_Fallback(positions, ident) ==
    IF ident.kind = "symbol" /\ ident.v \in DOMAIN positions
    THEN {ident.v}
    ELSE IF ident.kind = "trade_id"
              /\ \E sym \in DOMAIN positions : positions[sym].trade_id = ident.v
    THEN {sym \in DOMAIN positions : positions[sym].trade_id = ident.v}
    ELSE DOMAIN positions

\* the symbol of the position the identifier names, in a set (empty: none)
FindPosition(positions, ident) ==
    IF ident.kind = "symbol" /\ ident.v \in DOMAIN positions
    THEN {ident.v}
    ELSE IF ident.kind = "trade_id"
    THEN {sym \in DOMAIN positions : positions[sym].trade_id = ident.v}
    ELSE {}

\* the 'for trade in self.trade_history: if trade_id matches: ...; break' loop
MarkClosedInHistory(trade_history, trade_id, update) ==
    LET hits == {i \in 1..Len(trade_history) : trade_history[i].trade_id = trade_id}
    IN IF hits = {} THEN trade_history
       ELSE LET first == CHOOSE i \in hits : \A j \in hits : i <= j
            IN [trade_history EXCEPT ![first] = update @@ trade_history[first]]

\* a plausible slip: the closed position stays in self.positions
RemovePosition_Kept(positions, symbol) == positions

\* del self.positions[symbol]
RemovePosition(positions, symbol) ==
    [s \in DOMAIN positions \ {symbol} |-> positions[s]]

\* a plausible slip: the percentage is not divided by 100
SellFee_NotPercent(position_value) == RMul(position_value, FeePercentage)

\* fee_amount = position_value * (fee_percentage / 100)
SellFee(position_value) == RMul(position_value, Pct(FeePercentage))

ClosePaperPosition(L, file, ident, close_reason, given_price, env) ==
    LET args == [symbol_or_trade_id |-> ident, close_reason |-> close_reason]
        found == FindPosition(L.positions, ident)
    IN
    IF found = {}
    THEN [L |-> L, file |-> file, ret |-> Failure("close_paper_position", args, "position_not_found")]
    ELSE
    LET symbol == CHOOSE sym \in found : TRUE
        position == L.positions[symbol]
        current_price == IF Len(given_price) = 0
                         THEN GetCurrentPrice(position.token_address, env.factor)
                         ELSE given_price[1]
        slippage == Slippage(env.draw, L.trading_parameters.max_slippage)
        execution_price == RMul(current_price, RSub(One, slippage))
        token_amount == position.amount
        position_value == RMul(token_amount, execution_price)
        fee_amount == SellFee(position_value)
        actual_position_value == RSub(position_value, fee_amount)
        entry_value == RMul(token_amount, position.entry_price)
        realized_pnl == RSub(actual_position_value, entry_value)
        pnl_percentage == IF RGt(entry_value, Zero)
                          THEN RMul(RDiv(realized_pnl, entry_value), Hundred)
                          ELSE Zero
        closing_trade ==
            [trade_id |-> env.uuid,
             related_trade_id |-> position.trade_id,
             token_address |-> position.token_address,
             token_name |-> position.token_name,
             exit_time |-> env.now,
             entry_price |-> position.entry_price,
             exit_price |-> execution_price,
             amount |-> token_amount,
             value_usd |-> actual_position_value,
             fee_usd |-> fee_amount,
             realized_pnl |-> realized_pnl,
             pnl_percentage |-> pnl_percentage,
             holding_time |-> env.now - position.entry_time,
             close_reason |-> close_reason,
             status |-> "closed",
             slippage |-> RMul(slippage, Hundred),
             type |-> "sell"]
        update == [status |-> "closed",
                   exit_price |-> execution_price,
                   exit_time |-> env.now,
                   realized_pnl |-> realized_pnl,
                   pnl_percentage |-> pnl_percentage,
                   close_reason |-> close_reason]
        L2 == [L EXCEPT
                 !.virtual_balance = RAdd(L.virtual_balance, actual_position_value),
                 !.trade_history = Append(MarkClosedInHistory(L.trade_history, position.trade_id, update),
                                          closing_trade),
                 !.positions = RemovePosition(L.positions, symbol)]
    IN [L |-> L2,
        file |-> SaveData(L2, file, env.save),
        ret |-> [op |-> "close_paper_position", args |-> args, success |-> TRUE,
                 error |-> "", save |-> env.save, trade_id |-> closing_trade.trade_id,
                 token_address |-> position.token_address,
                 entry_price |-> position.entry_price, exit_price |-> execution_price,
                 amount |-> token_amount, value_usd |-> actual_position_value,
                 fee_usd |-> fee_amount, realized_pnl |-> realized_pnl,
                 pnl_percentage |-> pnl_percentage, close_reason |-> close_reason]]

(***************************************************************************)
(* PaperTrader: account operations                                         *)
(***************************************************************************)
EmptyPositions == [s \in {} |-> << >>]

ResetAccount(L, file, initial_balance, now, save) ==
    LET L2 == [L EXCEPT !.virtual_balance = initial_balance,
                        !.positions = EmptyPositions,
                        !.trade_history = << >>,
                        !.started_at = now]
    IN [L |-> L2, file |-> SaveData(L2, file, save),
        ret |-> [op |-> "reset_account", args |-> initial_balance, success |-> TRUE,
                 error |-> "", save |-> save]]

ResetStats(L, file, now, save) ==
    LET L2 == [L EXCEPT !.trade_history = << >>, !.started_at = now]
    IN [L |-> L2, file |-> SaveData(L2, file, save),
        ret |-> [op |-> "reset_stats", args |-> << >>, success |-> TRUE, error |-> "",
                 save |-> save]]

\* for key, value in params.items(): if key in self.trading_parameters: ...
UpdateTradingParameters(L, file, params, save) ==
    LET L2 == [L EXCEPT !.trading_parameters =
                 [k \in DOMAIN L.trading_parameters |->
                     IF k \in DOMAIN params THEN params[k] ELSE L.trading_parameters[k]]]
    IN [L |-> L2, file |-> SaveData(L2, file, save),
        ret |-> [op |-> "update_trading_parameters", args |-> params, success |-> TRUE,
                 error |-> "", save |-> save]]

\* paused and auto_execution are << >> for None or <<b>>
SetTradingMode(L, file, paused_arg, auto_execution_arg, save) ==
    LET L2 == [L EXCEPT
                 !.paused = IF Len(paused_arg) > 0 THEN paused_arg[1] ELSE L.paused,
                 !.auto_execution = IF Len(auto_execution_arg) > 0
                                    THEN auto_execution_arg[1] ELSE L.auto_execution]
    IN [L |-> L2, file |-> SaveData(L2, file, save),
        ret |-> [op |-> "set_trading_mode", args |-> <<paused_arg, auto_execution_arg>>,
                 success |-> TRUE, error |-> "", save |-> save]]

\* get_open_positions: the symbols of the rows it returns
GetOpenPositions(L) == DOMAIN L.positions

\* sum(trade['realized_pnl'] for trade in trade_history if 'realized_pnl' in trade)
RECURSIVE SumRealizedPnl(_)
SumRealizedPnl(history) ==
    IF Len(history) = 0 THEN Zero
    ELSE RAdd(SumRealizedPnl(SubSeq(history, 1, Len(history) - 1)),
              Get(history[Len(history)], "realized_pnl", Zero))

\* sum of amount * current price over the given open positions; factor_of
\* gives the random factor of each position's _get_current_price call
RECURSIVE OpenPositionsValue(_, _, _)
OpenPositionsValue(P, syms, factor_of) ==
    IF syms = {} THEN Zero
    ELSE LET s == CHOOSE x \in syms : TRUE
         IN RAdd(RMul(P[s].amount, GetCurrentPrice(P[s].token_address, factor_of[s])),
                 OpenPositionsValue(P, syms \ {s}, factor_of))

\* get_account_summary, without win_rate and days_running
GetAccountSummary(L, factor_of) ==
    LET open_positions_value == OpenPositionsValue(L.positions, DOMAIN L.positions, factor_of)
        won == {i \in 1..Len(L.trade_history) :
                   RGt(Get(L.trade_history[i], "realized_pnl", Zero), Zero)}
        lost == {i \in 1..Len(L.trade_history) :
                    RLt(Get(L.trade_history[i], "realized_pnl", Zero), Zero)}
    IN [virtual_balance |-> L.virtual_balance,
        open_positions_value |-> open_positions_value,
        total_value |-> RAdd(L.virtual_balance, open_positions_value),
        total_profit_loss |-> SumRealizedPnl(L.trade_history),
        win_trades |-> Cardinality(won),
        loss_trades |-> Cardinality(lost),
        total_trades |-> Len(L.trade_history),
        open_positions |-> Cardinality(DOMAIN L.positions)]

(***************************************************************************)
(* State                                                                   *)
(***************************************************************************)
VARIABLES
    deployment,          \* what runs: the "paper" bot, the "live" bot, a "tracker", or a
                         \* PaperTrader with its callers ("ledger"; "store": on a disk
                         \* that fails, in a process that restarts)
                         \* ("restarts": a tracker started more than once; "tasks":
                         \* a PaperTrader called from concurrent tasks)
    now,                 \* time.time(), in seconds
    next_uuid,           \* the next fresh uuid4
    config,              \* Config attributes the core reads
    \* PaperTrader
    virtual_balance, positions, trade_history, started_at,
    trading_parameters, paused, auto_execution,
    file,                \* paper_trading.json
    dashboard,           \* the PaperTrader object setup_bot builds for the dashboard; the
                         \* bot's own is the one above
    ret,                 \* the call that returned last, and its result
    tasks,               \* the calls on the PaperTrader that were created as asyncio
                         \* tasks, each with its position and its result
    before_tasks,        \* << >>, or <<the PaperTrader and the file>> as they were when
                         \* the first of the tasks was created
    \* TelegramCopyTrader
    processed_signals,   \* set of signal ids
    handlers,            \* process_message calls suspended at an await
    messages,            \* per message received: its signal_id, and whether it was passed on
    \* PriceTracker
    tracking_infos,      \* the tracking_info dicts created so far
    tracking_signals,    \* token_address -> index of its dict in tracking_infos
    observed,            \* per dict, the <<task, price>> ticks processed on it
    pending_starts,      \* start_tracking calls suspended at get_current_price
    price_tasks,         \* the monitor_price tasks
    starts,              \* number of start_tracking calls made so far
    \* Trader
    active_trades,       \* trade_id -> trade
    token_cache,         \* token_address -> result of check_token_safety
    monitors,            \* the monitor_trade tasks
    walk,                \* price_multiplier after the loop's 1st, 2nd, .. pass
    exits,               \* the sales _execute_exit completed
    closed               \* << >>, or <<n>> once Trader.close has run, n tasks created by then

ledger_vars == <<virtual_balance, positions, trade_history, started_at,
                 trading_parameters, paused, auto_execution, file, dashboard>>
task_vars == <<tasks, before_tasks>>
telegram_vars == <<processed_signals, handlers, messages>>
tracker_vars == <<tracking_infos, tracking_signals, observed, pending_starts,
                  price_tasks, starts>>
trader_vars == <<active_trades, token_cache, monitors, walk, exits, closed>>
watch_vars == <<tracker_vars, trader_vars>>
vars == <<deployment, now, next_uuid, config, ledger_vars, ret, task_vars, telegram_vars,
          watch_vars>>

\* number of messages the bot receives
MaxMessages == 2
\* TLC's integers have 32 bits: a trade is opened only while the
\* balance is a multiple of 1/MaxDenominator USD, and closed only while the
\* balance and the position's cost are, which keeps every amount exact.
MaxDenominator == 100
Representable(x) == x[2] <= MaxDenominator
\* if len(self.processed_signals) > 1000: keep 500
DedupLimit == 1000
DedupKeep == 500

InitialBalances == { R(10000, 1), Zero }
ParamUpdates ==
    { [position_size |-> R(50, 1)],
      [take_profit_levels |-> BadTpString, max_slippage |-> R(5, 1)] }

\* the PaperTrader object as one record
Ledger ==
    [virtual_balance |-> virtual_balance,
     positions |-> positions,
     trade_history |-> trade_history,
     started_at |-> started_at,
     trading_parameters |-> trading_parameters,
     paused |-> paused,
     auto_execution |-> auto_execution]

SetLedger(r) ==
    /\ virtual_balance' = r.L.virtual_balance
    /\ positions' = r.L.positions
    /\ trade_history' = r.L.trade_history
    /\ started_at' = r.L.started_at
    /\ trading_parameters' = r.L.trading_parameters
    /\ paused' = r.L.paused
    /\ auto_execution' = r.L.auto_execution
    /\ file' = r.file
    /\ ret' = r.ret
    /\ dashboard' = dashboard

\* Config.__init__ defaults and the getattr defaults of PaperTrader.__init__
DefaultConfig ==
    [position_size_percent |-> R(3, 1),
     initial_sl_percent |-> R(30, 1),
     trail_percent |-> R(5, 1),
     take_profit_levels |-> DefaultTpString,
     max_slippage |-> R(15, 1),
     min_liquidity_usd |-> 50000,
     max_buy_tax |-> R(10, 1),
     max_sell_tax |-> R(15, 1),
     honeypot_check |-> TRUE]

\* PaperTrader.__init__ followed by _load_data with no file
NewLedger(cfg, t) ==
    [virtual_balance |-> R(10000, 1),
     positions |-> EmptyPositions,
     trade_history |-> << >>,
     started_at |-> t,
     trading_parameters |->
        [position_size |-> cfg.position_size_percent,
         initial_sl |-> cfg.initial_sl_percent,
         trail_percent |-> cfg.trail_percent,
         take_profit_levels |-> cfg.take_profit_levels,
         max_slippage |-> cfg.max_slippage],
     paused |-> FALSE,
     auto_execution |-> TRUE]

NoCall == [op |-> "none", args |-> << >>, success |-> TRUE, error |-> ""]

\* the PaperTrader object the dashboard's commands are called on: in the bot
\* the one setup_bot builds (paper_trader = PaperTrader(config)), not the one
\* TelegramCopyTrader.__init__ builds for the signals; both use one file
Held == IF deployment = "paper" THEN dashboard ELSE Ledger

SetHeld(r) ==
    IF deployment = "paper"
    THEN /\ dashboard' = r.L
         /\ file' = r.file
         /\ ret' = r.ret
         /\ UNCHANGED <<virtual_balance, positions, trade_history, started_at,
                        trading_parameters, paused, auto_execution>>
    ELSE SetLedger(r)

\* the state after construction under the configuration cfg
InitOf(cfg) ==
    /\ now = 0
    /\ next_uuid = 1
    /\ config = cfg
    /\ virtual_balance = NewLedger(cfg, 0).virtual_balance
    /\ positions = NewLedger(cfg, 0).positions
    /\ trade_history = NewLedger(cfg, 0).trade_history
    /\ started_at = NewLedger(cfg, 0).started_at
    /\ trading_parameters = NewLedger(cfg, 0).trading_parameters
    /\ paused = NewLedger(cfg, 0).paused
    /\ auto_execution = NewLedger(cfg, 0).auto_execution
    /\ file = FileAbsent
    /\ dashboard = NewLedger(cfg, 0)
    /\ ret = NoCall
    /\ tasks = << >>
    /\ before_tasks = << >>
    /\ handlers = << >>
    /\ messages = << >>
    /\ tracking_infos = << >>
    /\ tracking_signals = [t \in {} |-> 0]
    /\ observed = << >>
    /\ pending_starts = << >>
    /\ price_tasks = << >>
    /\ starts = 0
    /\ active_trades = [t \in {} |-> 0]
    /\ token_cache = [t \in {} |-> 0]
    /\ monitors = << >>
    /\ walk = << >>
    /\ exits = EmptyBag
    /\ closed = << >>

InitRest == InitOf(DefaultConfig)

InitVars == InitRest /\ processed_signals = {}

\* a PaperTrader object and its callers
InitLedger == deployment = "ledger" /\ InitVars
\* the bot in paper mode
InitPaper == deployment = "paper" /\ InitVars

(***************************************************************************)
(* TelegramCopyTrader.process_message                                      *)
(***************************************************************************)
RemoveAt(seq, i) == SubSeq(seq, 1, i - 1) \o SubSeq(seq, i + 1, Len(seq))

\* time.time() advances
AdvanceTime ==
    /\ now < MaxTime
    /\ now' = now + 1
    /\ ret' = NoCall
    /\ UNCHANGED <<deployment, task_vars, next_uuid, config, ledger_vars, telegram_vars, watch_vars>>

\* the ids of earlier seconds: no later message can carry one of them
Stale(signals) == {id \in signals : id[2] < 0}

\* the set kept when the dedup set outgrows its limit: list(set)[-500:] of a
\* set whose iteration order is arbitrary, so any DedupKeep of the ids.  The
\* stale ids are interchangeable: of them the latest are kept (the k-th
\* latest is of second -k).
Trimmed(signals) ==
    IF Cardinality(signals) > DedupLimit
    THEN {K \cup {id \in Stale(signals) : id[2] >= Cardinality(K) - DedupKeep} :
             K \in {S \in SUBSET (signals \ Stale(signals)) :
                       /\ Cardinality(S) <= DedupKeep
                       /\ Cardinality(Stale(signals)) >= DedupKeep - Cardinality(S)}}
    ELSE {signals}

\* a signal message arrives: up to the first await (send_admin_message)
ReceiveSignal(token_address, trade_params) ==
    LET signal_id == <<token_address, now>>
    IN /\ deployment \in {"paper", "live"}
       /\ Len(messages) < MaxMessages
       /\ messages' = Append(messages, [signal_id |-> signal_id,
                                        passed |-> signal_id \notin processed_signals])
       /\ IF signal_id \in processed_signals
          THEN UNCHANGED <<processed_signals, handlers>>
          ELSE /\ processed_signals' \in Trimmed(processed_signals \cup {signal_id})
               /\ handlers' = Append(handlers,
                      [token_address |-> token_address, trade_params |-> trade_params,
                       pc |-> "notify_detected"])
       /\ ret' = NoCall
       /\ UNCHANGED <<deployment, task_vars, now, next_uuid, config, ledger_vars, watch_vars>>

\* paper mode: the handler resumes, runs execute_paper_trade and reports
ExecutePaperSignal(i, factor, draw, save) ==
    /\ deployment = "paper"
    /\ i \in 1..Len(handlers)
    /\ handlers[i].pc = "notify_detected"
    /\ next_uuid <= MaxUuid
    /\ InUniformRange(draw, R(1, 10), trading_parameters.max_slippage)
    /\ Representable(virtual_balance)
    /\ LET r == ExecutePaperTrade(Ledger, file, handlers[i].token_address,
                                  handlers[i].trade_params,
                                  [factor |-> factor, draw |-> draw, uuid |-> next_uuid,
                                   now |-> now, save |-> save])
       IN /\ SetLedger(r)
          /\ next_uuid' = IF r.ret.success THEN next_uuid + 1 ELSE next_uuid
    /\ handlers' = RemoveAt(handlers, i)
    /\ UNCHANGED <<deployment, task_vars, now, config, processed_signals, messages, watch_vars>>

(***************************************************************************)
(* The dashboard's commands (process_dashboard_command)                    *)
(***************************************************************************)
\* close_specific_position and "close all": close_paper_position(symbol, 'manual_close')
ClosePosition(ident, factor, draw, save) ==
    /\ deployment \in {"ledger", "paper", "store", "history"}
    /\ InUniformRange(draw, R(1, 10), trading_parameters.max_slippage)
    /\ FindPosition(Held.positions, ident) # {} =>
          next_uuid <= MaxUuid /\ Representable(Held.virtual_balance)
    /\ \A sym \in FindPosition(Held.positions, ident) :
          Representable(Held.positions[sym].value_usd)
    /\ LET r == ClosePaperPosition(Held, file, ident, "manual_close", << >>,
                                   [factor |-> factor, draw |-> draw, uuid |-> next_uuid,
                                    now |-> now, save |-> save])
       IN /\ SetHeld(r)
          /\ next_uuid' = IF r.ret.success THEN next_uuid + 1 ELSE next_uuid
    /\ UNCHANGED <<deployment, task_vars, now, config, telegram_vars, watch_vars>>

DoResetAccount(initial_balance, save) ==
    /\ deployment \in {"ledger", "paper", "store"}
    /\ SetHeld(ResetAccount(Held, file, initial_balance, now, save))
    /\ UNCHANGED <<deployment, task_vars, now, next_uuid, config, telegram_vars, watch_vars>>

DoResetStats(save) ==
    /\ deployment \in {"ledger", "paper", "store"}
    /\ SetHeld(ResetStats(Held, file, now, save))
    /\ UNCHANGED <<deployment, task_vars, now, next_uuid, config, telegram_vars, watch_vars>>

\* update_trading_parameters also writes the parameters back to the config
DoUpdateTradingParameters(params, save) ==
    /\ deployment \in {"ledger", "paper", "store"}
    /\ LET r == UpdateTradingParameters(Held, file, params, save)
       IN /\ SetHeld(r)
          /\ config' = [config EXCEPT
                        !.position_size_percent = r.L.trading_parameters.position_size,
                        !.initial_sl_percent = r.L.trading_parameters.initial_sl,
                        !.trail_percent = r.L.trading_parameters.trail_percent,
                        !.take_profit_levels = r.L.trading_parameters.take_profit_levels,
                        !.max_slippage = r.L.trading_parameters.max_slippage]
    /\ UNCHANGED <<deployment, task_vars, now, next_uuid, telegram_vars, watch_vars>>

DoSetTradingMode(paused_arg, auto_execution_arg, save) ==
    /\ deployment \in {"ledger", "paper", "store"}
    /\ SetHeld(SetTradingMode(Held, file, paused_arg, auto_execution_arg, save))
    /\ UNCHANGED <<deployment, task_vars, now, next_uuid, config, telegram_vars, watch_vars>>

CloseIdents ==
    {[kind |-> "symbol", v |-> GetTokenSymbol(t)] : t \in Tokens}
      \cup {[kind |-> "trade_id", v |-> u] : u \in 1..MaxUuid}
OptionalBool == {<< >>, <<TRUE>>, <<FALSE>>}
\* set_trading_mode(paused=.., auto_execution=..) as the callers use it
TradingModes == {m \in OptionalBool \X OptionalBool : Len(m[1]) + Len(m[2]) = 1}

(***************************************************************************)
(* PaperTrader.get_trade_history                                           *)
(***************************************************************************)
\* key=lambda x: x.get('entry_time', 0)
EntryTimeKey(x) == Get(x, "entry_time", 0)

\* one step of the stable sort with reverse=True: x, later in the list than
\* every record of `sorted`, goes behind the records whose key is not smaller
InsertByKey(sorted, x) ==
    LET n == Cardinality({i \in 1..Len(sorted) : EntryTimeKey(sorted[i]) >= EntryTimeKey(x)})
    IN SubSeq(sorted, 1, n) \o <<x>> \o SubSeq(sorted, n + 1, Len(sorted))

\* sorted(self.trade_history, key=.., reverse=True)
RECURSIVE SortedTrades(_)
SortedTrades(history) ==
    IF history = << >> THEN << >>
    ELSE InsertByKey(SortedTrades(SubSeq(history, 1, Len(history) - 1)),
                     history[Len(history)])

\* seq[offset:offset+limit] for offset >= 0 and limit >= 0
Slice(seq, offset, limit) ==
    SubSeq(seq, offset + 1, IF offset + limit < Len(seq) THEN offset + limit ELSE Len(seq))

GetTradeHistory(history, limit, offset) ==
    LET sorted_trades == SortedTrades(history)
    IN [trades |-> IF offset < Len(sorted_trades)
                   THEN Slice(sorted_trades, offset, limit)
                   ELSE << >>,
        total |-> Len(sorted_trades),
        offset |-> offset,
        limit |-> limit]

\* display_trade_history: page_size = 10, offset = page * page_size
PageSize == 10
\* the pages the history view and other callers ask for
HistoryLimits == {1, PageSize}
HistoryOffsets == {0, 1, 2, PageSize}

\* a caller runs get_trade_history on the PaperTrader object
CallGetTradeHistory(limit, offset) ==
    /\ deployment = "history"
    /\ ret' = [op |-> "get_trade_history", args |-> [limit |-> limit, offset |-> offset],
               success |-> TRUE, error |-> "",
               result |-> GetTradeHistory(trade_history, limit, offset)]
    /\ UNCHANGED <<deployment, task_vars, now, next_uuid, config, ledger_vars, telegram_vars, watch_vars>>

\* a caller runs execute_paper_trade on the PaperTrader object
CallExecutePaperTrade(token_address, trade_params, factor, draw, save) ==
    /\ deployment \in {"ledger", "store", "history", "tasks"}
    /\ next_uuid <= MaxUuid
    /\ InUniformRange(draw, R(1, 10), trading_parameters.max_slippage)
    /\ Representable(virtual_balance)
    /\ LET r == ExecutePaperTrade(Ledger, file, token_address, trade_params,
                                  [factor |-> factor, draw |-> draw, uuid |-> next_uuid,
                                   now |-> now, save |-> save])
       IN /\ SetLedger(r)
          /\ next_uuid' = IF r.ret.success THEN next_uuid + 1 ELSE next_uuid
    /\ UNCHANGED <<deployment, task_vars, now, config, telegram_vars, watch_vars>>

\* the dashboard's commands, the snapshot's write ending as one of `saves`
DashboardStep(saves) ==
    \/ \E id \in CloseIdents, f \in PriceFactors, d \in SlippageDraws, s \in saves :
          ClosePosition(id, f, d, s)
    \/ \E b \in InitialBalances, s \in saves : DoResetAccount(b, s)
    \/ \E s \in saves : DoResetStats(s)

\* the dashboard's settings commands
SettingsStep(updates, saves) ==
    \/ \E p \in updates, s \in saves : DoUpdateTradingParameters(p, s)
    \/ \E m \in TradingModes, s \in saves : DoSetTradingMode(m[1], m[2], s)

\* the PaperTrader object under any sequence of calls made within one second,
\* on a disk that does not fail
NextLedger ==
    \/ \E t \in Tokens, p \in SignalParams, f \in PriceFactors, d \in SlippageDraws :
          CallExecutePaperTrade(t, p, f, d, "ok")
    \/ DashboardStep({"ok"})

SpecLedger == InitLedger /\ [][NextLedger]_vars

(***************************************************************************)
(* The PaperTrader object on a disk that may fail, in a process that may   *)
(* stop or crash and start again.                                          *)
(***************************************************************************)
\* PaperTrader(config) at start-up: __init__ and its _load_data.  The Config
\* object is rebuilt too, from its own file, with or without the parameters
\* update_trading_parameters wrote into it.
Startup(cfg) ==
    /\ config' = cfg
    /\ SetLedger([L |-> LoadData(NewLedger(cfg, now), file, now),
                  file |-> file,
                  ret |-> [op |-> "startup", args |-> << >>, success |-> TRUE, error |-> ""]])

\* the process stops between two calls, or is killed, and starts again
Restart ==
    /\ deployment = "store"
    /\ \E cfg \in {config, DefaultConfig} : Startup(cfg)
    /\ UNCHANGED <<deployment, task_vars, now, next_uuid, telegram_vars, watch_vars>>

\* the process is killed while the _save_data of a call is writing: the file
\* was truncated by open(.., 'w') and holds a part of the document; then the
\* process starts again
CrashInSave ==
    /\ deployment = "store"
    /\ \E cfg \in {config, DefaultConfig} :
          /\ config' = cfg
          /\ SetLedger([L |-> LoadData(NewLedger(cfg, now), FileCorrupt, now),
                        file |-> FileCorrupt,
                        ret |-> [op |-> "startup", args |-> << >>, success |-> TRUE,
                                 error |-> ""]])
    /\ UNCHANGED <<deployment, task_vars, now, next_uuid, telegram_vars, watch_vars>>

StoreToken == <<1, 2, 3, 4>>
InitStore == deployment = "store" /\ InitVars
\* calls on one token, at one price
NextStore ==
    \/ \E d \in SlippageDraws, s \in SaveOutcomes :
          CallExecutePaperTrade(StoreToken, EmptyDict, R(6, 5), d, s)
    \/ \E d \in SlippageDraws, s \in SaveOutcomes :
          ClosePosition([kind |-> "symbol", v |-> GetTokenSymbol(StoreToken)], R(6, 5), d, s)
    \/ \E s \in SaveOutcomes : DoResetAccount(R(10000, 1), s)
    \/ \E s \in SaveOutcomes : DoResetStats(s)
    \/ SettingsStep({[position_size |-> R(50, 1)]}, SaveOutcomes)
    \/ Restart
    \/ CrashInSave

SpecStore == InitStore /\ [][NextStore]_vars

\* the bot in paper mode
\* the PaperTrader object opened, closed and its history read as time passes
InitHistory == deployment = "history" /\ InitVars

NextHistory ==
    \/ AdvanceTime
    \/ \E t \in Tokens, d \in SlippageDraws :
          CallExecutePaperTrade(t, EmptyDict, R(6, 5), d, "ok")
    \/ \E id \in CloseIdents, d \in SlippageDraws : ClosePosition(id, R(6, 5), d, "ok")
    \/ \E limit \in HistoryLimits, offset \in HistoryOffsets :
          CallGetTradeHistory(limit, offset)

SpecHistory == InitHistory /\ [][NextHistory]_vars

(***************************************************************************)
(* Calls of execute_paper_trade and close_paper_position that run as       *)
(* asyncio tasks on one PaperTrader.  A task runs when the event loop      *)
(* resumes it and gives the loop back at an await: the two coroutines      *)
(* contain no await, so each runs from its first line to its return.       *)
(***************************************************************************)
\* number of tasks created
MaxTasks == 2

\* the body of the coroutine of `task`, run on the object L
CoroutineBody(L, f, task, t) ==
    LET env == [factor |-> task.factor, draw |-> task.draw, uuid |-> task.uuid,
                now |-> t, save |-> "ok"]
    IN IF task.op = "execute_paper_trade"
       THEN ExecutePaperTrade(L, f, task.arg, EmptyDict, env)
       ELSE ClosePaperPosition(L, f, task.arg, "manual_close", << >>, env)

\* a slip: the balance is the one read when the task was created, as if the
\* coroutine had been suspended between reading the balance and writing it
RunTask_BalanceReadEarlier(L, f, task, t) ==
    CoroutineBody([L EXCEPT !.virtual_balance = task.balance], f, task, t)

\* the event loop runs the task: the body, on the object as it is now
RunTask(L, f, task, t) == CoroutineBody(L, f, task, t)

TaskOps ==
    {[op |-> "execute_paper_trade", arg |-> t] : t \in Tokens}
      \cup {[op |-> "close_paper_position", arg |-> id] : id \in CloseIdents}

\* asyncio.create_task(paper_trader.execute_paper_trade(..)) or
\* asyncio.create_task(paper_trader.close_paper_position(..)): nothing of the
\* body runs yet
CreateTask(call, factor, draw) ==
    /\ deployment = "tasks"
    /\ Len(tasks) < MaxTasks
    /\ InUniformRange(draw, R(1, 10), trading_parameters.max_slippage)
    /\ tasks' = Append(tasks, [op |-> call.op, arg |-> call.arg, factor |-> factor,
                               draw |-> draw, uuid |-> next_uuid,
                               balance |-> virtual_balance,
                               pc |-> "created", ran |-> 0, result |-> NoCall])
    /\ before_tasks' = IF tasks = << >> THEN <<[L |-> Ledger, file |-> file]>>
                       ELSE before_tasks
    /\ next_uuid' = next_uuid + 1
    /\ UNCHANGED <<deployment, now, config, ledger_vars, ret, telegram_vars, watch_vars>>

\* the event loop runs task i
StepTask(i) ==
    /\ deployment = "tasks"
    /\ i \in 1..Len(tasks)
    /\ tasks[i].pc = "created"
    /\ Representable(virtual_balance)
    /\ tasks[i].op = "close_paper_position" =>
          \A sym \in FindPosition(positions, tasks[i].arg) :
             Representable(positions[sym].value_usd)
    /\ LET r == RunTask(Ledger, file, tasks[i], now)
           n == Cardinality({k \in 1..Len(tasks) : tasks[k].pc = "done"})
       IN /\ SetLedger(r)
          /\ tasks' = [tasks EXCEPT ![i].pc = "done", ![i].ran = n + 1, ![i].result = r.ret]
    /\ UNCHANGED <<deployment, now, next_uuid, config, before_tasks, telegram_vars,
                   watch_vars>>

\* a PaperTrader that is called directly and then from concurrent tasks
InitTasks == deployment = "tasks" /\ InitVars
NextTasks ==
    \/ \E t \in Tokens, f \in PriceFactors, d \in SlippageDraws :
          tasks = << >> /\ CallExecutePaperTrade(t, EmptyDict, f, d, "ok")
    \/ \E c \in TaskOps, f \in PriceFactors, d \in SlippageDraws : CreateTask(c, f, d)
    \/ \E i \in 1..Len(tasks) : StepTask(i)
SpecTasks == InitTasks /\ [][NextTasks]_vars

NextPaper ==
    \/ AdvanceTime
    \/ \E t \in Tokens, p \in SignalParams : ReceiveSignal(t, p)
    \/ \E i \in 1..Len(handlers), f \in PriceFactors, d \in SlippageDraws :
          ExecutePaperSignal(i, f, d, "ok")
    \/ DashboardStep({"ok"})

SpecPaper == InitPaper /\ [][NextPaper]_vars

\* The bot in paper mode after DedupLimit signals, one a second, each refused
\* by the ledger (a position size above 100%): the dedup set is at its limit
\* and the ledger untouched.
EarlierSignals == {<<<<10, 11, 12, 1>>, -k>> : k \in 1..DedupLimit}
InitDedup == deployment = "paper" /\ InitRest /\ processed_signals = EarlierSignals
NextDedup ==
    \/ AdvanceTime
    \/ \E t \in Tokens : ReceiveSignal(t, EmptyDict)
    \/ \E i \in 1..Len(handlers), f \in PriceFactors, d \in SlippageDraws :
          ExecutePaperSignal(i, f, d, "ok")
SpecDedup == InitDedup /\ [][NextDedup]_vars

(***************************************************************************)
(* PriceTracker (src/price_tracker.py).  Prices are in units of 1e-7 USD.  *)
(* A tracking_info dict is an object: tracking_infos holds the dicts made  *)
(* so far and tracking_signals the index of each token's current one, so   *)
(* that a task can hold a dict that has been replaced.                     *)
(***************************************************************************)
\* number of start_tracking calls
MaxStarts == 1
\* number of prices the monitor_price tasks process in all, and of passes of
\* one monitor_trade loop
MaxTicks == 4
\* the failed fetches in a row an observer counts for a monitor_price task
MaxFailures == 2

\* a tracker that is asked once more to start (deployment "restarts") is
\* followed over fewer prices
StartLimit == IF deployment = "restarts" THEN MaxStarts + 1 ELSE MaxStarts
TickLimit == IF deployment = "restarts" THEN MaxTicks - 2 ELSE MaxTicks

TrackedTokens == { <<10, 11, 12, 1>> }
\* what get_current_price returns: << >> for None, or <<price>>
NoPrice == << >>
TrackerPrices == { R(1000, 1), R(1100, 1), R(1200, 1), R(1300, 1) }
StartPrices == { R(1000, 1), R(1200, 1) }
NotifyOutcomes == {"ok", "raised"}

RECURSIVE TotalLen(_)
TotalLen(logs) == IF Len(logs) = 0 THEN 0 ELSE Len(Head(logs)) + TotalLen(Tail(logs))

\* "not price": None or 0
Falsy(price) == Len(price) = 0 \/ price[1] = Zero

\* a slip: the last price taken for the highest one
TrackHighest_Last(current_price, highest_price) == current_price

\* if current_price > tracking_info['highest_price']: highest_price = current_price
TrackHighest(current_price, highest_price) ==
    IF RGt(current_price, highest_price) THEN current_price ELSE highest_price

\* a slip: the trailing level taken at the initial stop's distance
TrailSlLevel_InitialPercent(current_price, highest_price, current_sl_level, cfg) ==
    IF RGt(current_price, highest_price)
    THEN LET new_sl_level == RMul(current_price, RSub(One, Pct(cfg.initial_sl_percent)))
         IN IF RGt(new_sl_level, current_sl_level) THEN new_sl_level ELSE current_sl_level
    ELSE current_sl_level

\* the stop-loss level after a price: on a new highest price the level
\* current_price * (1 - trail_percent / 100), if that is above the current one
TrailSlLevel(current_price, highest_price, current_sl_level, cfg) ==
    IF RGt(current_price, highest_price)
    THEN LET new_sl_level == RMul(current_price, RSub(One, Pct(cfg.trail_percent)))
         IN IF RGt(new_sl_level, current_sl_level) THEN new_sl_level ELSE current_sl_level
    ELSE current_sl_level

\* the dict start_tracking stores
NewTrackingInfo(initial_price, cfg, t) ==
    LET initial_sl_level == RMul(initial_price, RSub(One, Pct(cfg.initial_sl_percent)))
    IN [entry_price |-> initial_price,
        current_price |-> initial_price,
        highest_price |-> initial_price,
        initial_sl_level |-> initial_sl_level,
        current_sl_level |-> initial_sl_level,
        sl_triggered |-> FALSE,
        start_time |-> t]

StartResult(token_address, result) ==
    [op |-> "start_tracking", args |-> token_address, success |-> result, error |-> ""]

\* start_tracking from the price on: store the dict, create the task
Register(token_address, initial_price) ==
    /\ tracking_infos' = Append(tracking_infos, NewTrackingInfo(initial_price, config, now))
    /\ observed' = Append(observed, << >>)
    /\ tracking_signals' =
          [t \in DOMAIN tracking_signals \cup {token_address} |->
              IF t = token_address THEN Len(tracking_infos) + 1 ELSE tracking_signals[t]]
    /\ price_tasks' = Append(price_tasks,
          [token_address |-> token_address, pc |-> "loop",
           current_price |-> Zero, tracking_info |-> 0, failures |-> 0])
    /\ ret' = StartResult(token_address, TRUE)

\* start_tracking up to its first await
StartTracking(token_address, initial_price) ==
    /\ deployment \in {"tracker", "restarts"}
    /\ starts < StartLimit
    /\ starts' = starts + 1
    /\ IF token_address \in DOMAIN tracking_signals
       THEN /\ ret' = StartResult(token_address, TRUE)
            /\ UNCHANGED <<tracking_infos, tracking_signals, observed, pending_starts,
                           price_tasks>>
       ELSE IF Falsy(initial_price)
       THEN /\ pending_starts' = Append(pending_starts, token_address)
            /\ ret' = NoCall
            /\ UNCHANGED <<tracking_infos, tracking_signals, observed, price_tasks>>
       ELSE /\ Register(token_address, initial_price[1])
            /\ UNCHANGED pending_starts
    /\ UNCHANGED <<deployment, task_vars, now, next_uuid, config, ledger_vars, telegram_vars,
                   trader_vars>>

\* start_tracking resumes with the price get_current_price returned
FinishStartTracking(i, price) ==
    /\ deployment \in {"tracker", "restarts"}
    /\ i \in 1..Len(pending_starts)
    /\ pending_starts' = RemoveAt(pending_starts, i)
    /\ IF Falsy(price)
       THEN /\ ret' = StartResult(pending_starts[i], FALSE)
            /\ UNCHANGED <<tracking_infos, tracking_signals, observed, price_tasks>>
       ELSE Register(pending_starts[i], price[1])
    /\ UNCHANGED <<deployment, task_vars, now, next_uuid, config, ledger_vars, telegram_vars,
                   starts, trader_vars>>

\* if current_price <= current_sl_level: sl_triggered = True, notify; then
\* sleep.  Yields the dicts and the task's next position.
StopCheck(infos, r, current_price) ==
    IF RLe(current_price, infos[r].current_sl_level)
    THEN [infos |-> [infos EXCEPT ![r].sl_triggered = TRUE], pc |-> "notify_trigger"]
    ELSE [infos |-> infos, pc |-> "loop"]

\* monitor_price: the while condition, then the call of get_current_price
MonitorPriceLoop(i) ==
    /\ deployment \in {"tracker", "restarts"}
    /\ i \in 1..Len(price_tasks)
    /\ price_tasks[i].pc = "loop"
    /\ LET token_address == price_tasks[i].token_address
           tracked == /\ token_address \in DOMAIN tracking_signals
                      /\ ~tracking_infos[tracking_signals[token_address]].sl_triggered
       IN price_tasks' = [price_tasks EXCEPT ![i].pc = IF tracked THEN "fetch" ELSE "done"]
    /\ ret' = NoCall
    /\ UNCHANGED <<deployment, task_vars, now, next_uuid, config, ledger_vars, telegram_vars,
                   tracking_infos, tracking_signals, observed, pending_starts, starts,
                   trader_vars>>

\* what get_current_price returned to monitor_price
PriceResult(token_address, price) ==
    [op |-> "get_current_price", args |-> token_address, success |-> ~Falsy(price),
     error |-> "", price |-> price]

\* a slip: the loop ends on a failed fetch
AfterFailedFetch_GivesUp(task) ==
    [task EXCEPT !.pc = "done",
                 !.failures = IF @ < MaxFailures THEN @ + 1 ELSE @]

\* if not current_price: sleep(30); continue.  The observer counts the
\* failure.
AfterFailedFetch(task) ==
    [task EXCEPT !.pc = "loop",
                 !.failures = IF @ < MaxFailures THEN @ + 1 ELSE @]

\* monitor_price resumes with the price: no price, sleep and retry; else
\* update the dict, and notify of a raised stop or go on to the stop check
MonitorPriceFetched(i, price) ==
    /\ deployment \in {"tracker", "restarts"}
    /\ i \in 1..Len(price_tasks)
    /\ price_tasks[i].pc = "fetch"
    /\ IF Falsy(price)
       THEN /\ price_tasks' = [price_tasks EXCEPT ![i] = AfterFailedFetch(@)]
            /\ UNCHANGED <<tracking_infos, observed>>
       ELSE LET r == tracking_signals[price_tasks[i].token_address]
                info == tracking_infos[r]
                current_price == price[1]
                level == TrailSlLevel(current_price, info.highest_price,
                                      info.current_sl_level, config)
                updated == [tracking_infos EXCEPT
                              ![r].current_price = current_price,
                              ![r].highest_price = TrackHighest(current_price, info.highest_price),
                              ![r].current_sl_level = level]
                checked == StopCheck(updated, r, current_price)
            IN /\ TotalLen(observed) < TickLimit
               /\ observed' = [observed EXCEPT ![r] = Append(@, <<i, current_price>>)]
               /\ IF level # info.current_sl_level
                  THEN /\ tracking_infos' = updated
                       /\ price_tasks' = [price_tasks EXCEPT
                             ![i].pc = "notify_adjust",
                             ![i].current_price = current_price,
                             ![i].tracking_info = r,
                             ![i].failures = 0]
                  ELSE /\ tracking_infos' = checked.infos
                       /\ price_tasks' = [price_tasks EXCEPT
                             ![i].pc = checked.pc,
                             ![i].current_price = current_price,
                             ![i].tracking_info = r,
                             ![i].failures = 0]
    /\ ret' = PriceResult(price_tasks[i].token_address, price)
    /\ UNCHANGED <<deployment, task_vars, now, next_uuid, config, ledger_vars, telegram_vars,
                   tracking_signals, pending_starts, starts, trader_vars>>

\* notify_sl_adjustment returned or raised: the stop check, or the handler's
\* sleep
MonitorPriceAdjustNotified(i, outcome) ==
    /\ deployment \in {"tracker", "restarts"}
    /\ i \in 1..Len(price_tasks)
    /\ price_tasks[i].pc = "notify_adjust"
    /\ IF outcome = "raised"
       THEN /\ price_tasks' = [price_tasks EXCEPT ![i].pc = "loop"]
            /\ UNCHANGED tracking_infos
       ELSE LET checked == StopCheck(tracking_infos, price_tasks[i].tracking_info,
                                     price_tasks[i].current_price)
            IN /\ tracking_infos' = checked.infos
               /\ price_tasks' = [price_tasks EXCEPT ![i].pc = checked.pc]
    /\ ret' = NoCall
    /\ UNCHANGED <<deployment, task_vars, now, next_uuid, config, ledger_vars, telegram_vars,
                   tracking_signals, observed, pending_starts, starts, trader_vars>>

\* notify_sl_triggered returned or raised: sleep
MonitorPriceTriggerNotified(i) ==
    /\ deployment \in {"tracker", "restarts"}
    /\ i \in 1..Len(price_tasks)
    /\ price_tasks[i].pc = "notify_trigger"
    /\ price_tasks' = [price_tasks EXCEPT ![i].pc = "loop"]
    /\ ret' = NoCall
    /\ UNCHANGED <<deployment, task_vars, now, next_uuid, config, ledger_vars, telegram_vars,
                   tracking_infos, tracking_signals, observed, pending_starts, starts,
                   trader_vars>>

Optional(S) == {NoPrice} \cup {<<x>> : x \in S}

NextTracker ==
    \/ \E t \in TrackedTokens, p \in Optional(StartPrices) : StartTracking(t, p)
    \/ \E i \in 1..Len(pending_starts), p \in Optional(StartPrices) : FinishStartTracking(i, p)
    \/ \E i \in 1..Len(price_tasks) : MonitorPriceLoop(i)
    \/ \E i \in 1..Len(price_tasks), p \in Optional(TrackerPrices) : MonitorPriceFetched(i, p)
    \/ \E i \in 1..Len(price_tasks), o \in NotifyOutcomes : MonitorPriceAdjustNotified(i, o)
    \/ \E i \in 1..Len(price_tasks) : MonitorPriceTriggerNotified(i)

\* a PriceTracker whose start_tracking is called more than once
InitRestarts == deployment = "restarts" /\ InitVars
SpecRestarts == InitRestarts /\ [][NextTracker]_vars

(***************************************************************************)
(* Trader (src/trader.py) and the live path of process_message.  Prices    *)
(* are in units of 1e-9 USD and amounts in units of 1e6 tokens.            *)
(***************************************************************************)
\* entry_price = 0.0000001 and amount = 1000000000 of execute_trade
EntryPrice == R(100, 1)
TradeAmount == R(1000, 1)

\* what check_token_safety draws for a token
SafetyDraws ==
    { [liquidity_usd |-> 100000, buy_tax_percent |-> Zero, sell_tax_percent |-> Zero,
       holder_count |-> 1000, top_holder_percent |-> R(20, 1), is_honeypot |-> FALSE],
      [liquidity_usd |-> 100000, buy_tax_percent |-> R(5, 1), sell_tax_percent |-> R(10, 1),
       holder_count |-> 1000, top_holder_percent |-> R(20, 1), is_honeypot |-> FALSE],
      [liquidity_usd |-> 100000, buy_tax_percent |-> Zero, sell_tax_percent |-> Zero,
       holder_count |-> 1000, top_holder_percent |-> R(20, 1), is_honeypot |-> TRUE] }

\* the (is_safe, details) pair check_token_safety computes from its draws
SafetyResult(d, cfg) ==
    LET is_liquidity_ok == d.liquidity_usd >= cfg.min_liquidity_usd
        is_buy_tax_ok == RLe(d.buy_tax_percent, cfg.max_buy_tax)
        is_sell_tax_ok == RLe(d.sell_tax_percent, cfg.max_sell_tax)
        is_holder_dist_ok == RLt(d.top_holder_percent, R(50, 1)) /\ d.holder_count > 50
        ok == is_liquidity_ok /\ is_buy_tax_ok /\ is_sell_tax_ok /\ is_holder_dist_ok
    IN [is_safe |-> IF cfg.honeypot_check THEN ok /\ ~d.is_honeypot ELSE ok,
        details |-> d]

\* the simulated walk: price_multiplier, counter and phase are locals of
\* monitor_trade that every task computes alike from the number of the pass,
\* so the model keeps one walk.  The multiplier rises in a pass of the 'pump'
\* phase (and of 'moon', which the model merges with it) and falls in a pass
\* of 'dump'; the passes at which the phase changes are left open.
Multipliers == { R(9, 10), R(11, 10), R(6, 5), R(2, 1) }
Phases == {"pump", "dump"}
WalkStart == [price_multiplier |-> One, phase |-> "pump"]
LastOfWalk(w) == IF Len(w) = 0 THEN WalkStart ELSE w[Len(w)]
\* a pass from `last`: the multiplier moves with last's phase
ValidPass(last, pass) ==
    IF last.phase = "pump"
    THEN RGt(pass.price_multiplier, last.price_multiplier)
    ELSE RLt(pass.price_multiplier, last.price_multiplier)

\* the trade execute_trade stores
NewTrade(trade_id, token_address, stop_loss, take_profit_levels, details, t, task) ==
    LET adjusted_sl_percent == RAdd(stop_loss, details.sell_tax_percent)
    IN [trade_id |-> trade_id,
        token_address |-> token_address,
        entry_time |-> t,
        entry_price |-> EntryPrice,
        amount |-> TradeAmount,
        stop_loss_price |-> RMul(EntryPrice, RSub(One, Pct(adjusted_sl_percent))),
        take_profit_levels |-> take_profit_levels,
        safety_details |-> details,
        task |-> task]

\* asyncio.create_task(self.monitor_trade(trade_id)): a task that has not run
NewMonitor(trade_id, origin) ==
    [trade_id |-> trade_id, origin |-> origin, pc |-> "created",
     entry_price |-> Zero, stop_loss_price |-> Zero, take_profit_levels |-> << >>,
     amount |-> Zero, sell_tax |-> Zero, highest_price |-> Zero,
     take_profit_triggered |-> << >>, remaining_amount |-> Zero,
     counter |-> 0, current_price |-> Zero, level |-> 0]

\* monitor_trade from its first line to the loop
StartedMonitor(mon, trade) ==
    [mon EXCEPT
       !.entry_price = trade.entry_price,
       !.stop_loss_price = trade.stop_loss_price,
       !.take_profit_levels = trade.take_profit_levels,
       !.amount = trade.amount,
       !.sell_tax = trade.safety_details.sell_tax_percent,
       !.highest_price = trade.entry_price,
       !.take_profit_triggered = [i \in 1..Len(trade.take_profit_levels) |-> FALSE],
       !.remaining_amount = trade.amount]

RemoveTrade(trades, trade_id) == [t \in DOMAIN trades \ {trade_id} |-> trades[t]]

\* the for loop over the take-profit levels from level i on, up to the next
\* await, and what follows the loop.  Yields the task and active_trades.
RECURSIVE TakeProfitScan(_, _, _)
TakeProfitScan(mon, trades, i) ==
    IF i > Len(mon.take_profit_levels)
    THEN IF \A k \in 1..Len(mon.take_profit_triggered) : mon.take_profit_triggered[k]
         THEN [mon |-> [mon EXCEPT !.pc = "done"], trades |-> RemoveTrade(trades, mon.trade_id)]
         ELSE [mon |-> [mon EXCEPT !.pc = "sleep"], trades |-> trades]
    ELSE LET tp_price == RMul(mon.entry_price, RAdd(One, Pct(R(mon.take_profit_levels[i], 1))))
         IN IF ~mon.take_profit_triggered[i] /\ RGe(mon.current_price, tp_price)
            THEN LET sell_portion == RDiv(mon.amount, R(Len(mon.take_profit_levels), 1))
                     sold == [mon EXCEPT
                                !.take_profit_triggered[i] = TRUE,
                                !.remaining_amount = RSub(@, sell_portion),
                                !.level = i]
                 IN \* _execute_exit sleeps when it knows the trade; else it returns
                    \* False and the store into active_trades[trade_id] raises KeyError
                    IF mon.trade_id \in DOMAIN trades
                    THEN [mon |-> [sold EXCEPT !.pc = "exit_take_profit"], trades |-> trades]
                    ELSE [mon |-> [sold EXCEPT !.pc = "failed"], trades |-> trades]
            ELSE TakeProfitScan(mon, trades, i + 1)

\* a slip: the take-profit levels are looked at before the stop loss
StopLossOrTakeProfit_ProfitFirst(mon, trades) ==
    LET scanned == TakeProfitScan(mon, trades, 1)
    IN IF scanned.mon.pc = "sleep" /\ RLe(mon.current_price, mon.stop_loss_price)
       THEN IF mon.trade_id \in DOMAIN trades
            THEN [mon |-> [mon EXCEPT !.pc = "exit_stop_loss"], trades |-> trades]
            ELSE [mon |-> [mon EXCEPT !.pc = "done"], trades |-> trades]
       ELSE scanned

\* the stop-loss check, then the take-profit levels
StopLossOrTakeProfit(mon, trades) ==
    IF RLe(mon.current_price, mon.stop_loss_price)
    THEN IF mon.trade_id \in DOMAIN trades
         THEN [mon |-> [mon EXCEPT !.pc = "exit_stop_loss"], trades |-> trades]
         ELSE [mon |-> [mon EXCEPT !.pc = "done"], trades |-> trades]
    ELSE TakeProfitScan(mon, trades, 1)

\* one pass of the loop from its top, at multiplier `multiplier`
MonitorPass(mon, trades, multiplier, cfg) ==
    LET current_price == RMul(mon.entry_price, multiplier)
        is_high == RGt(current_price, mon.highest_price)
        adjusted_trail == RAdd(cfg.trail_percent, RDiv(mon.sell_tax, R(2, 1)))
        new_stop_loss == RMul(current_price, RSub(One, Pct(adjusted_trail)))
        raised == is_high /\ RGt(cfg.trail_percent, Zero)
                     /\ RGt(new_stop_loss, mon.stop_loss_price)
        priced == [mon EXCEPT
                     !.counter = @ + 1,
                     !.current_price = current_price,
                     !.highest_price = IF is_high THEN current_price ELSE @,
                     !.stop_loss_price = IF raised THEN new_stop_loss ELSE @]
    IN IF raised /\ mon.trade_id \notin DOMAIN trades
       THEN \* self.active_trades[trade_id]['stop_loss_price'] = .. raises KeyError
            [mon |-> [priced EXCEPT !.pc = "failed"], trades |-> trades]
       ELSE StopLossOrTakeProfit(priced,
               IF raised
               THEN [trades EXCEPT ![mon.trade_id].stop_loss_price = new_stop_loss]
               ELSE trades)

TradeResult(token_address, success, error, trade_id) ==
    [op |-> "execute_trade", args |-> token_address, success |-> success,
     error |-> error, trade_id |-> trade_id]

\* execute_trade once check_token_safety has returned `result`: refuse an
\* unsafe token, read the parameters (float() may raise) and start the buy
AfterSafety(i, trade_id, result) ==
    LET h == handlers[i]
        parsed == ParseLevels(config.take_profit_levels)
        take_profit_levels ==
            IF Len(config.take_profit_levels) > 0 THEN parsed.levels ELSE DefaultLevels
    IN IF ~result.is_safe
       THEN /\ handlers' = RemoveAt(handlers, i)
            /\ ret' = [safety_details |-> result.details] @@
                         TradeResult(h.token_address, FALSE, "Token safety check failed", trade_id)
       ELSE IF Len(config.take_profit_levels) > 0 /\ ~parsed.ok
       THEN /\ handlers' = RemoveAt(handlers, i)
            /\ ret' = TradeResult(h.token_address, FALSE, "ValueError", trade_id)
       ELSE /\ handlers' = [handlers EXCEPT ![i] =
                  [token_address |-> h.token_address, trade_params |-> h.trade_params,
                   pc |-> "buy", trade_id |-> trade_id, details |-> result.details,
                   take_profit_levels |-> take_profit_levels]]
            /\ ret' = NoCall

\* live mode: the handler resumes and calls execute_trade, which runs up to
\* the sleep of check_token_safety or, on a cached token, of the buy
LiveExecuteTrade(i) ==
    /\ deployment = "live"
    /\ i \in 1..Len(handlers)
    /\ handlers[i].pc = "notify_detected"
    /\ next_uuid' = next_uuid + 1
    /\ IF handlers[i].token_address \in DOMAIN token_cache
       THEN AfterSafety(i, next_uuid, token_cache[handlers[i].token_address])
       ELSE /\ handlers' = [handlers EXCEPT ![i] =
                  [token_address |-> handlers[i].token_address,
                   trade_params |-> handlers[i].trade_params,
                   pc |-> "safety", trade_id |-> next_uuid]]
            /\ ret' = NoCall
    /\ UNCHANGED <<deployment, task_vars, now, config, ledger_vars, processed_signals, messages,
                   tracker_vars, trader_vars>>

\* check_token_safety draws its result and caches it
LiveSafetyChecked(i, d) ==
    /\ deployment = "live"
    /\ i \in 1..Len(handlers)
    /\ handlers[i].pc = "safety"
    /\ LET result == SafetyResult(d, config)
           token_address == handlers[i].token_address
       IN /\ token_cache' = [t \in DOMAIN token_cache \cup {token_address} |->
                                IF t = token_address THEN result ELSE token_cache[t]]
          /\ AfterSafety(i, handlers[i].trade_id, result)
    /\ UNCHANGED <<deployment, task_vars, now, next_uuid, config, ledger_vars, processed_signals,
                   messages, tracker_vars, active_trades, monitors, walk, exits, closed>>

\* the buy is done: execute_trade stores the trade, creates its monitoring
\* task and returns; process_message sends the result
LiveBought(i) ==
    /\ deployment = "live"
    /\ i \in 1..Len(handlers)
    /\ handlers[i].pc = "buy"
    /\ LET h == handlers[i]
           stop_loss == Get(h.trade_params, "stop_loss", config.initial_sl_percent)
           trade == NewTrade(h.trade_id, h.token_address, stop_loss, h.take_profit_levels,
                             h.details, now, Len(monitors) + 1)
       IN /\ active_trades' = [t \in DOMAIN active_trades \cup {h.trade_id} |->
                                  IF t = h.trade_id THEN trade ELSE active_trades[t]]
          /\ monitors' = Append(monitors, NewMonitor(h.trade_id, "execute_trade"))
          /\ handlers' = [handlers EXCEPT ![i].pc = "notify_executed"]
          /\ ret' = TradeResult(h.token_address, TRUE, "", h.trade_id)
    /\ UNCHANGED <<deployment, task_vars, now, next_uuid, config, ledger_vars, processed_signals,
                   messages, tracker_vars, token_cache, walk, exits, closed>>

\* the result is sent: process_message creates a monitoring task of its own
LiveNotified(i) ==
    /\ deployment = "live"
    /\ i \in 1..Len(handlers)
    /\ handlers[i].pc = "notify_executed"
    /\ monitors' = Append(monitors, NewMonitor(handlers[i].trade_id, "process_message"))
    /\ handlers' = RemoveAt(handlers, i)
    /\ ret' = NoCall
    /\ UNCHANGED <<deployment, task_vars, now, next_uuid, config, ledger_vars, processed_signals,
                   messages, tracker_vars, active_trades, token_cache, walk, exits, closed>>

Passes == [price_multiplier : Multipliers, phase : Phases]

\* a monitor_trade task starts when its trade is gone: it returns
MonitorUnknownTrade(j) ==
    /\ deployment = "live"
    /\ j \in 1..Len(monitors)
    /\ monitors[j].pc = "created"
    /\ monitors[j].trade_id \notin DOMAIN active_trades
    /\ monitors' = [monitors EXCEPT ![j].pc = "done"]
    /\ ret' = NoCall
    /\ UNCHANGED <<deployment, task_vars, now, next_uuid, config, ledger_vars, telegram_vars,
                   tracker_vars, active_trades, token_cache, walk, exits, closed>>

\* a monitor_trade task runs from its start, or from its sleep, through one
\* pass of the loop up to its next await
MonitorTick(j, pass) ==
    /\ deployment = "live"
    /\ j \in 1..Len(monitors)
    /\ monitors[j].pc \in {"created", "sleep"}
    /\ monitors[j].pc = "created" => monitors[j].trade_id \in DOMAIN active_trades
    /\ LET mon == IF monitors[j].pc = "created"
                  THEN StartedMonitor(monitors[j], active_trades[monitors[j].trade_id])
                  ELSE monitors[j]
           r == MonitorPass(mon, active_trades, pass.price_multiplier, config)
       IN /\ mon.counter < MaxTicks
          /\ IF mon.counter < Len(walk)
             THEN pass = walk[mon.counter + 1] /\ UNCHANGED walk
             ELSE ValidPass(LastOfWalk(walk), pass) /\ walk' = Append(walk, pass)
          /\ monitors' = [monitors EXCEPT ![j] = r.mon]
          /\ active_trades' = r.trades
    /\ ret' = NoCall
    /\ UNCHANGED <<deployment, task_vars, now, next_uuid, config, ledger_vars, telegram_vars,
                   tracker_vars, token_cache, exits, closed>>

\* the sale _execute_exit completes for a task
ExitOf(j, mon) ==
    [trade_id |-> mon.trade_id,
     exit_type |-> IF mon.pc = "exit_stop_loss" THEN <<"stop_loss">>
                   ELSE <<"take_profit", mon.take_profit_levels[mon.level]>>,
     current_price |-> mon.current_price,
     amount |-> IF mon.pc = "exit_stop_loss" THEN mon.remaining_amount
                ELSE RDiv(mon.amount, R(Len(mon.take_profit_levels), 1)),
     task |-> j]

\* _execute_exit resumes from its sleep and returns True; the task goes on to
\* its next await
MonitorExitDone(j) ==
    /\ deployment = "live"
    /\ j \in 1..Len(monitors)
    /\ monitors[j].pc \in {"exit_stop_loss", "exit_take_profit"}
    /\ exits' = exits (+) SetToBag({ExitOf(j, monitors[j])})
    /\ LET mon == monitors[j]
       IN IF mon.pc = "exit_stop_loss"
          THEN /\ active_trades' = RemoveTrade(active_trades, mon.trade_id)
               /\ monitors' = [monitors EXCEPT ![j].pc = "done"]
          ELSE IF mon.trade_id \notin DOMAIN active_trades
          THEN \* self.active_trades[trade_id]['amount'] = .. raises KeyError
               /\ monitors' = [monitors EXCEPT ![j].pc = "failed"]
               /\ UNCHANGED active_trades
          ELSE LET r == TakeProfitScan(mon,
                            [active_trades EXCEPT ![mon.trade_id].amount = mon.remaining_amount],
                            mon.level + 1)
               IN /\ monitors' = [monitors EXCEPT ![j] = r.mon]
                  /\ active_trades' = r.trades
    /\ ret' = NoCall
    /\ UNCHANGED <<deployment, task_vars, now, next_uuid, config, ledger_vars, telegram_vars,
                   tracker_vars, token_cache, walk, closed>>

\* Trader.close: cancel the task stored with each active trade, clear the cache.
\* A cancelled task ends at the await it is suspended at, or never runs.
TraderClose ==
    /\ deployment = "live"
    /\ closed = << >>
    /\ monitors' = [j \in 1..Len(monitors) |->
                      IF /\ \E id \in DOMAIN active_trades : active_trades[id].task = j
                         /\ monitors[j].pc \notin {"done", "failed"}
                      THEN [monitors[j] EXCEPT !.pc = "cancelled"]
                      ELSE monitors[j]]
    /\ token_cache' = [t \in {} |-> 0]
    /\ closed' = <<Len(monitors)>>
    /\ ret' = [op |-> "close", args |-> << >>, success |-> TRUE, error |-> ""]
    /\ UNCHANGED <<deployment, task_vars, now, next_uuid, config, ledger_vars, telegram_vars,
                   tracker_vars, active_trades, walk, exits>>

\* the bot in live mode, within one second: the signals are for one token, so
\* the dedup set lets one of them through
LiveTokens == { <<10, 11, 12, 1>> }

NextLive ==
    \/ \E t \in LiveTokens, p \in SignalParams : ReceiveSignal(t, p)
    \/ \E i \in 1..Len(handlers) : LiveExecuteTrade(i)
    \/ \E i \in 1..Len(handlers), d \in SafetyDraws : LiveSafetyChecked(i, d)
    \/ \E i \in 1..Len(handlers) : LiveBought(i)
    \/ \E i \in 1..Len(handlers) : LiveNotified(i)
    \/ \E j \in 1..Len(monitors) : MonitorUnknownTrade(j)
    \/ \E j \in 1..Len(monitors), pass \in Passes : MonitorTick(j, pass)
    \/ \E j \in 1..Len(monitors) : MonitorExitDone(j)
    \/ TraderClose

\* the bot in live mode under a configuration whose take-profit string is
\* malformed, or lists its levels out of order
LiveConfigs ==
    { [DefaultConfig EXCEPT !.take_profit_levels = BadTpString],
      [DefaultConfig EXCEPT !.take_profit_levels = UnsortedTpString] }
InitConfigured ==
    /\ deployment = "live"
    /\ \E cfg \in LiveConfigs : InitOf(cfg)
    /\ processed_signals = {}
SpecConfigured == InitConfigured /\ [][NextLive]_vars

\* the watchers: the bot in live mode, or a PriceTracker and its callers
InitWatch == deployment \in {"live", "tracker"} /\ InitVars
NextWatch == NextLive \/ NextTracker
SpecWatch == InitWatch /\ [][NextWatch]_vars

(***************************************************************************)
(* Properties of the ledger                                                *)
(***************************************************************************)
\* C1: every successful open debits the balance by exactly
\* balance * position size / 100, the new position's value_usd is that amount
\* minus the fee and strictly below it, and its amount is value_usd divided by
\* the execution price.
C1_OpenDebitsSizedAmount ==
    [][(ret'.op = "execute_paper_trade" /\ ret'.success) =>
          LET pct == Get(ret'.args.trade_params, "position_size",
                         trading_parameters.position_size)
              sized == RMul(virtual_balance, Pct(pct))
              pos == positions'[GetTokenSymbol(ret'.args.token_address)]
          IN /\ RSub(virtual_balance, virtual_balance') = sized
             /\ pos.value_usd = RSub(sized, pos.fee_usd)
             /\ RLt(pos.value_usd, sized)
             /\ pos.amount = RDiv(pos.value_usd, pos.entry_price)]_vars

\* C2: an open for a token that already has an open position fails and
\* leaves the balance, the open positions and the trade history as they were;
\* so of two signals for one token one second apart only the first opens.
C2_DuplicateOpenRejected ==
    [][(/\ ret'.op = "execute_paper_trade"
        /\ \E sym \in DOMAIN positions :
               positions[sym].token_address = ret'.args.token_address) =>
          /\ ~ret'.success
          /\ UNCHANGED <<virtual_balance, positions, trade_history>>]_vars

\* C9: a successful close takes the position out of get_open_positions and
\* adds exactly one sell record to the trade history; the record's
\* realized_pnl is negative when the net exit value is below the entry value
\* and positive when it is above.
C9_CloseRemovesAndRecords ==
    [][(ret'.op = "close_paper_position" /\ ret'.success) =>
          LET last == trade_history'[Len(trade_history')]
              entry_value == RMul(last.amount, last.entry_price)
              Sells(h) == {i \in 1..Len(h) : h[i].type = "sell"}
          IN /\ GetTokenSymbol(last.token_address)
                    \notin GetOpenPositions([positions |-> positions'])
             /\ \A sym \in DOMAIN positions' :
                    positions'[sym].trade_id # last.related_trade_id
             /\ Len(trade_history') = Len(trade_history) + 1
             /\ Cardinality(Sells(trade_history')) = Cardinality(Sells(trade_history)) + 1
             /\ last.type = "sell" /\ last.status = "closed"
             /\ last.trade_id = ret'.trade_id
             /\ RLt(last.value_usd, entry_value) => last.realized_pnl[1] < 0
             /\ RGt(last.value_usd, entry_value) => last.realized_pnl[1] > 0]_vars

\* a position was closed at a gain
C9_Witness ==
    /\ ret.op = "close_paper_position" /\ ret.success
    /\ ret.realized_pnl[1] > 0
    /\ Len(trade_history) >= 2

\* C10: after an open, a close, a reset of the statistics or a parameter
\* update, every record the history held before is still at its place with
\* every field unchanged.
C10_HistoryAppendOnly ==
    [][ret'.op \in {"execute_paper_trade", "close_paper_position", "reset_stats",
                    "update_trading_parameters"} =>
          /\ Len(trade_history') >= Len(trade_history)
          /\ \A i \in 1..Len(trade_history) : trade_history'[i] = trade_history[i]]_vars

\* the sum of value_usd over the open positions
RECURSIVE SumValueUsd(_, _)
SumValueUsd(P, syms) ==
    IF syms = {} THEN Zero
    ELSE LET s == CHOOSE x \in syms : TRUE
         IN RAdd(P[s].value_usd, SumValueUsd(P, syms \ {s}))

\* balance plus the cost basis of the open positions
AccountTotal(balance, P) == RAdd(balance, SumValueUsd(P, DOMAIN P))

\* C11: balance + cost basis of the open positions stays equal to the
\* starting balance + realized pnl of the closed positions - entry fees paid:
\* a successful open lowers the total by its fee alone and a successful close
\* changes it by its realized pnl alone.
C11_BalanceConserved ==
    [][(ret'.op \in {"execute_paper_trade", "close_paper_position"} /\ ret'.success) =>
          RSub(AccountTotal(virtual_balance', positions'),
               AccountTotal(virtual_balance, positions))
            = IF ret'.op = "execute_paper_trade"
              THEN RNeg(ret'.fee_usd)
              ELSE ret'.realized_pnl]_vars

\* C12: an open whose sized amount (balance * position size / 100) exceeds the
\* balance fails with the insufficient-balance error and leaves the balance,
\* the open positions and the trade history as they were.
C12_InsufficientBalanceRejected ==
    [][(/\ ret'.op = "execute_paper_trade"
        /\ RGt(RMul(virtual_balance,
                    Pct(Get(ret'.args.trade_params, "position_size",
                            trading_parameters.position_size))),
               virtual_balance)) =>
          /\ ~ret'.success
          /\ ret'.error = "insufficient_balance"
          /\ UNCHANGED <<virtual_balance, positions, trade_history>>]_vars

\* an oversized open was refused on an account that holds a position
C12_Witness ==
    /\ ret.op = "execute_paper_trade" /\ ~ret.success
    /\ ret.error = "insufficient_balance"
    /\ ret.args.trade_params.position_size = R(150, 1)
    /\ DOMAIN positions # {}

\* the identifier names no open position: neither a key of positions nor the
\* trade_id of one
NotOpen(P, ident) ==
    /\ ident.kind = "symbol" => ident.v \notin DOMAIN P
    /\ ident.kind = "trade_id" => \A sym \in DOMAIN P : P[sym].trade_id # ident.v

\* C13: a close of an identifier that names no open position fails with
\* position-not-found and leaves the balance, the positions and the history
\* as they were; after a successful close its identifier names no open
\* position, so a second close of it credits nothing.
C13_CloseUnknownRejected ==
    [][ret'.op = "close_paper_position" =>
          /\ NotOpen(positions, ret'.args.symbol_or_trade_id) =>
                /\ ~ret'.success
                /\ ret'.error = "position_not_found"
                /\ UNCHANGED <<virtual_balance, positions, trade_history>>
          /\ ret'.success =>
                /\ NotOpen(positions', ret'.args.symbol_or_trade_id)
                /\ \A f \in PriceFactors, d \in SlippageDraws :
                      LET again == ClosePaperPosition(Ledger', file',
                                      ret'.args.symbol_or_trade_id, "manual_close", << >>,
                                      [factor |-> f, draw |-> d, uuid |-> next_uuid',
                                       now |-> now', save |-> "ok"])
                      IN ~again.ret.success /\ again.L = Ledger']_vars

\* a position that was closed before is closed again, and the close fails
C13_Witness ==
    /\ ret.op = "close_paper_position" /\ ~ret.success
    /\ ret.error = "position_not_found"
    /\ \E i \in 1..Len(trade_history) :
          /\ trade_history[i].type = "sell"
          /\ \/ /\ ret.args.symbol_or_trade_id.kind = "trade_id"
                /\ trade_history[i].related_trade_id = ret.args.symbol_or_trade_id.v
             \/ /\ ret.args.symbol_or_trade_id.kind = "symbol"
                /\ GetTokenSymbol(trade_history[i].token_address)
                      = ret.args.symbol_or_trade_id.v

\* C14: of the messages that carry one signal id (one token, one second) at
\* most one is passed on to open a position; the later ones are skipped.
C14_OneOpenPerDedupKey ==
    \A i, j \in 1..Len(messages) :
        (i < j /\ messages[i].signal_id = messages[j].signal_id) => ~messages[j].passed

(***************************************************************************)
(* Properties of the ledger's persistence                                  *)
(***************************************************************************)
MutatingOps == {"execute_paper_trade", "close_paper_position", "reset_account",
                "reset_stats", "update_trading_parameters", "set_trading_mode"}

\* the file holds a document whose every field equals the account's
FileHolds(f, balance, P, history, start, params, p, ae) ==
    /\ f.kind = "data"
    /\ f.data.virtual_balance = balance
    /\ f.data.positions = P
    /\ f.data.trade_history = history
    /\ f.data.started_at = start
    /\ f.data.trading_parameters = params
    /\ f.data.paused = p
    /\ f.data.auto_execution = ae

\* C15: when a mutating call returns success and its save did not fail, the
\* file holds the account as it is in memory at the return.
C15_WriteThrough ==
    [][(ret'.op \in MutatingOps /\ ret'.success /\ ret'.save = "ok") =>
          FileHolds(file', virtual_balance', positions', trade_history', started_at',
                    trading_parameters', paused', auto_execution')]_vars

\* the bot was paused, with a trade in the history, and the save went through
C15_Witness ==
    /\ ret.op = "set_trading_mode" /\ ret.success /\ ret.save = "ok"
    /\ paused
    /\ Len(trade_history) >= 1

\* C16: when the process starts again after a stop or a crash, in the middle
\* of a save included, the account it restores is the account as it was
\* after the last mutation that completed and was saved: never a part of a
\* document and never the default account in its place.
C16_CrashRecovery ==
    [][(/\ ret'.op = "startup"
        /\ FileHolds(file, virtual_balance, positions, trade_history, started_at,
                     trading_parameters, paused, auto_execution)) =>
          UNCHANGED <<virtual_balance, positions, trade_history, started_at,
                      trading_parameters, paused, auto_execution>>]_vars

\* C19: with a file that cannot be parsed the start-up fails; the ledger does
\* not come up with the default account, and no later save writes over the
\* corrupt file.
C19_CorruptFileBlocksStartup ==
    [][/\ (ret'.op = "startup" /\ file'.kind = "corrupt") => ~ret'.success
       /\ (ret.op = "startup" /\ file.kind = "corrupt") => file'.kind = "corrupt"]_vars

\* a call of each mutating operation on the account L with the file f, its
\* save ending as s
CallOn(op, L, f, uuid, s) ==
    LET env == [factor |-> R(6, 5), draw |-> R(5, 1), uuid |-> uuid, now |-> now, save |-> s]
    IN CASE op = "execute_paper_trade" ->
              ExecutePaperTrade(L, f, StoreToken, EmptyDict, env)
         [] op = "close_paper_position" ->
              ClosePaperPosition(L, f, [kind |-> "symbol", v |-> GetTokenSymbol(StoreToken)],
                                 "manual_close", << >>, env)
         [] op = "reset_account" -> ResetAccount(L, f, R(10000, 1), now, s)
         [] op = "reset_stats" -> ResetStats(L, f, now, s)
         [] op = "update_trading_parameters" ->
              UpdateTradingParameters(L, f, [position_size |-> R(50, 1)], s)
         [] OTHER -> SetTradingMode(L, f, <<TRUE>>, << >>, s)

\* the amounts of the account are within the exact range of the arithmetic
Exact(L) ==
    /\ Representable(L.virtual_balance)
    /\ \A sym \in DOMAIN L.positions : Representable(L.positions[sym].value_usd)

\* C17: a mutating call whose save fails returns what it returns when the
\* save succeeds and leaves the same account in memory; the next call whose
\* save succeeds writes the whole account, the earlier mutation included.
C17_SaveFailureNotFatal ==
    \A op \in MutatingOps, s \in {"open_failed", "write_failed"} :
        Exact(Ledger) =>
            LET failed == CallOn(op, Ledger, file, next_uuid, s)
                saved == CallOn(op, Ledger, file, next_uuid, "ok")
            IN /\ failed.ret.success = saved.ret.success
               /\ failed.L = saved.L
               /\ failed.ret.success =>
                    /\ failed.file = IF s = "open_failed" THEN file ELSE FileCorrupt
                    /\ \A op2 \in MutatingOps :
                          Exact(failed.L) =>
                              LET next == CallOn(op2, failed.L, failed.file, next_uuid + 1, "ok")
                              IN next.ret.success =>
                                    FileHolds(next.file, next.L.virtual_balance,
                                              next.L.positions, next.L.trade_history,
                                              next.L.started_at, next.L.trading_parameters,
                                              next.L.paused, next.L.auto_execution)

\* an open went through in memory while the write of its snapshot failed
C17_Witness ==
    /\ ret.op = "execute_paper_trade" /\ ret.success /\ ret.save = "write_failed"
    /\ file.kind = "corrupt"
    /\ DOMAIN positions # {}

CreationTime(x) == IF x.type = "sell" THEN x.exit_time ELSE x.entry_time

\* the orders of the history by creation time, newest first
NewestFirstOrders(history) ==
    {[i \in 1..Len(history) |-> history[pi[i]]] :
        pi \in {q \in [1..Len(history) -> 1..Len(history)] :
                  /\ \A i, j \in 1..Len(history) : i # j => q[i] # q[j]
                  /\ \A i, j \in 1..Len(history) :
                        i < j => CreationTime(history[q[i]]) >= CreationTime(history[q[j]])}}

\* C20: get_trade_history(limit, offset) returns the number of records as
\* 'total' and, as its page, the records offset .. offset+limit-1 of the
\* history ordered newest first by creation time (the entry of a buy record,
\* the exit of a sell record).
C20_HistoryNewestFirst ==
    ret.op = "get_trade_history" =>
        /\ ret.result.total = Len(trade_history)
        /\ \E order \in NewestFirstOrders(trade_history) :
              ret.result.trades = Slice(order, ret.args.offset, ret.args.limit)

(***************************************************************************)
(* Properties of the watchers                                              *)
(***************************************************************************)
\* the largest of x and the members of S
RMaxOf(x, S) == CHOOSE m \in S \cup {x} : \A y \in S \cup {x} : RLe(y, m)

\* the sales recorded for a trade, by kind ("stop_loss" or "take_profit")
ExitRecords(trade_id, kind) ==
    {e \in BagToSet(exits) : e.trade_id = trade_id /\ e.exit_type[1] = kind}

RECURSIVE SumExits(_)
SumExits(S) ==
    IF S = {} THEN Zero
    ELSE LET e == CHOOSE x \in S : TRUE
         IN RAdd(RMul(R(CopiesIn(e, exits), 1), e.amount), SumExits(S \ {e}))

\* every trade made so far
TradeIds == 1..(next_uuid - 1)

\* C3: no step lowers a stop-loss price: not the one stored with a trade, not
\* the one a monitor_trade task works with, not a tracked token's level.
C3_StopLossNeverLowered ==
    [][/\ \A id \in DOMAIN active_trades \cap DOMAIN active_trades' :
              RGe(active_trades'[id].stop_loss_price, active_trades[id].stop_loss_price)
       /\ \A j \in 1..Len(monitors) :
              monitors[j].pc # "created" =>
                 RGe(monitors'[j].stop_loss_price, monitors[j].stop_loss_price)
       /\ \A r \in 1..Len(tracking_infos) :
              RGe(tracking_infos'[r].current_sl_level, tracking_infos[r].current_sl_level)]_vars

\* C4: the highest price kept for a tracked token is the largest of its entry
\* price and the prices processed for it, and the highest price of a
\* monitor_trade task is the largest of the entry price and the prices of the
\* passes it has made.
C4_HighWaterMark ==
    /\ \A r \in 1..Len(tracking_infos) :
          tracking_infos[r].highest_price =
             RMaxOf(tracking_infos[r].entry_price,
                    {observed[r][k][2] : k \in 1..Len(observed[r])})
    /\ \A j \in 1..Len(monitors) :
          monitors[j].counter > 0 =>
             monitors[j].highest_price =
                RMaxOf(monitors[j].entry_price,
                       {RMul(monitors[j].entry_price, walk[k].price_multiplier) :
                           k \in 1..monitors[j].counter})

\* a tracked token's price has risen above the entry price and fallen back
C4_Witness ==
    \E r \in 1..Len(tracking_infos) :
       /\ Len(observed[r]) >= 2
       /\ RGt(tracking_infos[r].highest_price, tracking_infos[r].entry_price)
       /\ RLt(tracking_infos[r].current_price, tracking_infos[r].highest_price)

\* the prices of C5, in units of 1e-7 USD
Scenario5 == << R(1000, 1), R(1200, 1), R(1100, 1), R(1300, 1) >>

\* one task has fed the dict r, entered at the first price of Scenario5 with
\* a trail of 5%, the first Len(observed[r]) prices of Scenario5
FedScenario5(r) ==
    /\ tracking_infos[r].entry_price = Scenario5[1]
    /\ config.trail_percent = R(5, 1)
    /\ Len(observed[r]) >= 1
    /\ \A k \in 1..Len(observed[r]) :
          /\ observed[r][k][1] = observed[r][1][1]
          /\ k <= Len(Scenario5) => observed[r][k][2] = Scenario5[k]

\* C5 as stated: the four prices give the highest prices 1000, 1200, 1200,
\* 1300 and, from the second on, the stops 1140, 1140, 1235, and the monitor
\* goes on until all four are processed.
C5_AllFourTicksProcessed ==
    \A r \in 1..Len(tracking_infos) :
       FedScenario5(r) =>
          LET n == Len(observed[r])
          IN /\ n <= 4
             /\ tracking_infos[r].highest_price =
                   << R(1000, 1), R(1200, 1), R(1200, 1), R(1300, 1) >>[n]
             /\ n >= 2 => tracking_infos[r].current_sl_level =
                             << Zero, R(1140, 1), R(1140, 1), R(1235, 1) >>[n]
             /\ n < 4 => ~tracking_infos[r].sl_triggered

\* C5 as amended: the first three prices give the highest prices 1000, 1200,
\* 1200 and the stop 1140 after the second and the third; the third price,
\* at or below the stop, triggers the stop-loss, and the monitor processes no
\* fourth price.
C5_StopsAtThirdTick ==
    \A r \in 1..Len(tracking_infos) :
       FedScenario5(r) =>
          LET n == Len(observed[r])
          IN /\ n <= 3
             /\ tracking_infos[r].highest_price =
                   << R(1000, 1), R(1200, 1), R(1200, 1) >>[n]
             /\ n >= 2 => tracking_infos[r].current_sl_level = R(1140, 1)
             /\ tracking_infos[r].sl_triggered <=> n = 3

\* the third price of Scenario5 has been processed
C5_Witness ==
    \E r \in 1..Len(tracking_infos) :
       /\ FedScenario5(r)
       /\ Len(observed[r]) = 3
       /\ tracking_infos[r].sl_triggered

\* C6: once the stop-loss of a position has triggered the position is out of
\* the active set, and a trade is sold by stop-loss once.
C6_StopLossClosesPosition ==
    /\ \A t \in DOMAIN tracking_signals :
          ~tracking_infos[tracking_signals[t]].sl_triggered
    /\ \A id \in TradeIds :
          Cardinality(ExitRecords(id, "stop_loss")) <= 1

\* C7: the take-profit sales of a trade never add up to more than the amount
\* bought, and a trade whose sales add up to it is out of the active set.
C7_TakeProfitWithinAmount ==
    \A id \in TradeIds :
       LET sold == SumExits(ExitRecords(id, "take_profit"))
       IN /\ RLe(sold, TradeAmount)
          /\ sold = TradeAmount => id \notin DOMAIN active_trades

\* C8: every take-profit level of a trade is sold once, a third of the
\* amount bought at each of the levels 20, 40 and 100.
C8_OneExitPerLevel ==
    \A id \in TradeIds :
       \A e \in ExitRecords(id, "take_profit") :
          /\ e.amount = RDiv(TradeAmount, R(3, 1))
          /\ \A f \in ExitRecords(id, "take_profit") :
                f.exit_type = e.exit_type => f = e

(***************************************************************************)
(* Properties of the signal paths and of the bot as a whole                *)
(***************************************************************************)

\* check_token_safety has run for the token and found it safe
PassedSafety(token_address) ==
    token_address \in DOMAIN token_cache /\ token_cache[token_address].is_safe

\* C21: a position or an active trade exists, and a monitor runs, only for a
\* token that passed the safety check; execute_trade on a token that failed
\* it returns the safety-check failure with the itemized metrics.
C21_UnsafeNeverOpened ==
    /\ \A sym \in DOMAIN positions : PassedSafety(positions[sym].token_address)
    /\ \A id \in DOMAIN active_trades : PassedSafety(active_trades[id].token_address)
    /\ monitors # << >> => \E t \in DOMAIN token_cache : token_cache[t].is_safe
    /\ (ret.op = "execute_trade" /\ ~PassedSafety(ret.args)) =>
          /\ ~ret.success
          /\ ret.error = "Token safety check failed"
          /\ ret.safety_details = token_cache[ret.args].details

\* the monitor_trade tasks of a trade that have not ended
LiveMonitors(trade_id) ==
    {j \in 1..Len(monitors) :
        monitors[j].trade_id = trade_id /\ monitors[j].pc \notin {"done", "failed", "cancelled"}}

\* C23: an active trade has at most one monitor_trade task that has not
\* ended, and no trade has ever had two tasks started for it.
C23_OneMonitorPerTrade ==
    /\ \A id \in DOMAIN active_trades : Cardinality(LiveMonitors(id)) <= 1
    /\ \A j, k \in 1..Len(monitors) : monitors[j].trade_id = monitors[k].trade_id => j = k

\* C22: once Trader.close has run, no monitor_trade task created before it
\* completes another sale.
C22_NoExitAfterClose ==
    [][closed # << >> =>
          \A e \in BagToSet(exits') :
              e.task <= closed[1] => CopiesIn(e, exits') = CopiesIn(e, exits)]_vars

\* C24: a tick of monitor_price on which get_current_price returns no price
\* leaves every tracking_info dict (current price, highest price, stop-loss
\* level, triggered flag) and the tracked tokens as they were, and the task
\* goes back to the top of its loop to fetch again.
C24_FailedFetchChangesNothing ==
    [][(ret'.op = "get_current_price" /\ ~ret'.success) =>
          /\ UNCHANGED <<tracking_infos, tracking_signals, observed>>
          /\ \A i \in 1..Len(price_tasks) :
                price_tasks'[i] # price_tasks[i] =>
                   /\ price_tasks[i].pc = "fetch"
                   /\ price_tasks'[i].pc = "loop"
                   /\ price_tasks'[i].tracking_info = price_tasks[i].tracking_info
                   /\ price_tasks'[i].current_price = price_tasks[i].current_price]_vars

\* a fetch has failed for a task that had processed prices before
C24_Witness ==
    /\ ret.op = "get_current_price" /\ ~ret.success
    /\ TotalLen(observed) >= 2
    /\ \E i \in 1..Len(price_tasks) : price_tasks[i].pc = "loop" /\ price_tasks[i].failures >= 1

\* C27: whatever threshold below MaxFailures is configured, a position whose
\* last MaxFailures fetches failed in a row is marked stale in its
\* tracking_info, is not triggered by the failures and is still polled.
C27_StaleAfterFailures ==
    \A i \in 1..Len(price_tasks) :
        (price_tasks[i].failures >= MaxFailures
           /\ price_tasks[i].token_address \in DOMAIN tracking_signals) =>
            LET info == tracking_infos[tracking_signals[price_tasks[i].token_address]]
            IN /\ "stale" \in DOMAIN info
               /\ info.stale
               /\ price_tasks[i].pc \in {"loop", "fetch"}

\* C28: the dedup set never holds more than DedupLimit ids; the id of the
\* message let through last is in it; and an id let through is missing from
\* it only when every id older than it is missing too.
C28_DedupOldestEvicted ==
    /\ Cardinality(processed_signals) <= DedupLimit
    /\ (messages # << >> /\ messages[Len(messages)].passed) =>
          messages[Len(messages)].signal_id \in processed_signals
    /\ \A k \in 1..Len(messages) :
          (messages[k].passed /\ messages[k].signal_id \notin processed_signals) =>
              \A id \in processed_signals : id[2] >= messages[k].signal_id[2]

\* a take-profit string float() cannot parse
Malformed(s) == Len(s) > 0 /\ ~ParseLevels(s).ok

\* C26: under a malformed take-profit string an open goes on with the levels
\* [20, 40, 100].  Live: execute_trade on a token that passed the safety check
\* succeeds, and the trades stored carry the default levels.  Paper:
\* execute_paper_trade on the fresh account succeeds with the default levels.
C26_MalformedLevelsFallBack ==
    Malformed(config.take_profit_levels) =>
        /\ (ret.op = "execute_trade" /\ PassedSafety(ret.args)) => ret.success
        /\ \A id \in DOMAIN active_trades : active_trades[id].take_profit_levels = DefaultLevels
        /\ \A t \in Tokens, d \in SlippageDraws :
              LET r == ExecutePaperTrade(NewLedger(config, now), FileAbsent, t, EmptyDict,
                                         [factor |-> R(6, 5), draw |-> d, uuid |-> next_uuid,
                                          now |-> now, save |-> "ok"])
              IN r.ret.success /\ r.ret.take_profit_levels = DefaultLevels

\* the price of monitor m has reached take-profit level k
LevelReached(m, k) ==
    RGe(m.current_price, RMul(m.entry_price, RAdd(One, Pct(R(m.take_profit_levels[k], 1)))))

\* C30: when a monitor_trade task begins the partial exit of a take-profit
\* level, no level of a smaller percentage is both reached and untriggered:
\* the levels reached on one tick are sold in ascending order, however the
\* configured list is ordered.
C30_LevelsInAscendingOrder ==
    [][\A j \in 1..Len(monitors) :
          (monitors'[j].pc = "exit_take_profit" /\ monitors'[j] # monitors[j]) =>
              LET m == monitors'[j]
              IN \A k \in 1..Len(m.take_profit_levels) :
                    (~m.take_profit_triggered[k] /\ LevelReached(m, k)) =>
                        m.take_profit_levels[k] >= m.take_profit_levels[m.level]]_vars

\* a monitor_trade task about to run a pass of its loop, as the pass finds it
AtLoopTop(j) ==
    IF monitors[j].pc = "created"
    THEN StartedMonitor(monitors[j], active_trades[monitors[j].trade_id])
    ELSE monitors[j]

\* C29: a pass of the monitor_trade loop, from any task at the top of its loop,
\* at any multiplier, with the stop the task holds or with a stop at the new
\* price: the highest price is updated and the stop is not lowered; then the
\* stop check is made against that stop, and when it fires no take-profit
\* level is marked or sold on the pass; a take-profit exit begins only above
\* the stop.
C29_StopCheckBeforeTakeProfit ==
    \A j \in 1..Len(monitors) :
        (\/ monitors[j].pc = "sleep"
         \/ monitors[j].pc = "created" /\ monitors[j].trade_id \in DOMAIN active_trades) =>
            \A x \in Multipliers :
                LET current_price == RMul(AtLoopTop(j).entry_price, x)
                IN \A stop \in {AtLoopTop(j).stop_loss_price, current_price} :
                      LET m == [AtLoopTop(j) EXCEPT !.stop_loss_price = stop]
                          r == MonitorPass(m, active_trades, x, config).mon
                      IN /\ r.highest_price = RMax(m.highest_price, current_price)
                         /\ RGe(r.stop_loss_price, stop)
                         /\ (r.pc # "failed" /\ RLe(current_price, r.stop_loss_price)) =>
                               /\ r.pc \in {"exit_stop_loss", "done"}
                               /\ r.take_profit_triggered = m.take_profit_triggered
                               /\ r.remaining_amount = m.remaining_amount
                         /\ r.pc = "exit_take_profit" => RGt(current_price, r.stop_loss_price)

\* a task's stop check has fired against a stop raised on an earlier pass, after
\* a take-profit level of the task had been sold
C29_Witness ==
    \E j \in 1..Len(monitors) :
        /\ monitors[j].pc = "exit_stop_loss"
        /\ RGt(monitors[j].stop_loss_price, monitors[j].entry_price)
        /\ \E k \in 1..Len(monitors[j].take_profit_triggered) : monitors[j].take_profit_triggered[k]

\* C25: there is one authoritative ledger.  Every position the signal path
\* has opened is among the open positions and in the account summary that the
\* dashboard's object answers with, and the snapshot a dashboard command
\* (close, reset_stats, update_trading_parameters) persists holds every
\* position the signal path has open and the balance left after its debits.
DashboardMutations == {"close_paper_position", "reset_stats", "update_trading_parameters"}

VisibleToDashboard ==
    \A sym \in DOMAIN positions :
       /\ sym \in GetOpenPositions(dashboard)
       /\ dashboard.positions[sym].trade_id = positions[sym].trade_id
       /\ dashboard.virtual_balance = virtual_balance

PersistedKeepsSignalPath ==
    (/\ ret.op \in DashboardMutations /\ ret.success
     /\ file.kind = "data" /\ file.data = SnapshotOf(dashboard)) =>
       \A sym \in DOMAIN positions :
          /\ sym \in DOMAIN file.data.positions
          /\ file.data.virtual_balance = virtual_balance

C25_OneAuthoritativeLedger ==
    deployment = "paper" => VisibleToDashboard /\ PersistedKeepsSignalPath

(***************************************************************************)
(* Properties of positions, of the account and of concurrent calls         *)
(***************************************************************************)

\* C31: every successful open on the signal path, paper or live, is followed
\* by the start of a monitor for the position: once process_message has
\* handled the signal, each position it opened on the ledger and each live
\* trade it opened has a monitor task that watches its stop-loss price.
Watched(trade_id) == \E j \in 1..Len(monitors) : monitors[j].trade_id = trade_id

C31_OpenStartsMonitor ==
    /\ \A sym \in DOMAIN positions : Watched(positions[sym].trade_id)
    /\ \A id \in DOMAIN active_trades : Watched(id)

\* C33: open positions are keyed by token: a successful open for one token
\* never replaces or hides the open position of another token, so after
\* successful opens for two distinct tokens both positions are in the open
\* set, each with its cost basis.
C33_DistinctTokensDistinctPositions ==
    [][(ret'.op = "execute_paper_trade" /\ ret'.success) =>
          \A s \in DOMAIN positions :
             positions[s].token_address # ret'.args.token_address =>
                \E s2 \in DOMAIN positions' : positions'[s2] = positions[s]]_vars

\* C34: every position in the open set has an entry price above zero and a
\* quantity above zero, whatever signal was accepted: also one that asks for
\* a position size of 0%, and one that arrives when the balance is 0.
C34_PositionsArePositive ==
    \A s \in DOMAIN positions :
       /\ RGt(positions[s].entry_price, Zero)
       /\ RGt(positions[s].amount, Zero)

\* C35: a full close credits the balance by exactly
\*   net = quantity * quote price * (1 - slippage) * (1 - fee percentage / 100),
\* records realized_pnl = net - quantity * entry price in the closing record,
\* in the result and on the buy record, and closes the whole quantity: the
\* closing record carries the position's amount and the position leaves the
\* open set.  (Exact arithmetic: the rounding of floats is not represented.)
ClosedSymbol ==
    CHOOSE s \in DOMAIN positions :
       positions[s].trade_id = trade_history'[Len(trade_history')].related_trade_id

NetProceeds(quantity, quote, slippage) ==
    RMul(RMul(RMul(quantity, quote), RSub(One, slippage)), RSub(One, Pct(FeePercentage)))

C35_FullCloseEconomics ==
    [][(ret'.op = "close_paper_position" /\ ret'.success) =>
          LET rec == trade_history'[Len(trade_history')]
              pos == positions[ClosedSymbol]
          IN /\ \E s \in DOMAIN positions : positions[s].trade_id = rec.related_trade_id
             /\ \E f \in PriceFactors :
                   LET net == NetProceeds(pos.amount,
                                          GetCurrentPrice(pos.token_address, f),
                                          Pct(rec.slippage))
                   IN /\ virtual_balance' = RAdd(virtual_balance, net)
                      /\ rec.realized_pnl = RSub(net, RMul(pos.amount, pos.entry_price))
                      /\ ret'.realized_pnl = rec.realized_pnl
                      /\ rec.value_usd = net
             /\ rec.amount = pos.amount
             /\ rec.status = "closed" /\ rec.type = "sell"
             /\ \A s \in DOMAIN positions' : positions'[s].trade_id # pos.trade_id
             /\ Len(trade_history') = Len(trade_history) + 1]_vars

C35_Witness ==
    /\ ret.op = "close_paper_position" /\ ret.success
    /\ RGt(ret.amount, Zero)
    /\ ret.realized_pnl # Zero
    /\ positions = EmptyPositions
    /\ RGt(virtual_balance, Zero)

\* C36: while the ledger is paused or auto-execution is disabled, a call of
\* execute_paper_trade returns failure and leaves the balance, the open
\* positions, the trade history and the persisted snapshot as they were.
C36_BlockedOpenChangesNothing ==
    [][((paused \/ ~auto_execution) /\ ret'.op = "execute_paper_trade") =>
          /\ ~ret'.success
          /\ UNCHANGED <<virtual_balance, positions, trade_history, file>>]_vars

C36_Witness ==
    /\ ret.op = "execute_paper_trade" /\ ~ret.success
    /\ ret.error = "auto_execution_disabled"
    /\ ~paused /\ ~auto_execution
    /\ positions # EmptyPositions
    /\ file.kind = "data" /\ ~file.data.auto_execution

\* C37: after any sequence of opens and closes, get_account_summary reports
\* as total_profit_loss the sum of the realized pnl of the closed positions,
\* each closed position counted once, and win_trades + loss_trades is the
\* number of closed positions whose realized pnl is not zero.  A closed
\* position is one closing record of the history.
Closings(history) == SelectSeq(history, LAMBDA x : x.type = "sell")

C37_SummaryCountsEachCloseOnce ==
    \A factor_of \in [DOMAIN positions -> PriceFactors] :
       LET summary == GetAccountSummary(Ledger, factor_of)
           closings == Closings(trade_history)
       IN /\ summary.total_profit_loss = SumRealizedPnl(closings)
          /\ summary.win_trades + summary.loss_trades =
                Cardinality({i \in 1..Len(closings) : closings[i].realized_pnl # Zero})

(***************************************************************************)
(* Properties of a PriceTracker that is started more than once             *)
(***************************************************************************)
RunningPriceTasks(token_address) ==
    {i \in 1..Len(price_tasks) :
        price_tasks[i].token_address = token_address /\ price_tasks[i].pc # "done"}

\* C38: the PriceTracker runs at most one monitor_price task per token at any
\* time, also when start_tracking is called for the token again while an
\* earlier call without an initial price is waiting for the price.
C38_OnePriceTaskPerToken ==
    \A t \in TrackedTokens : Cardinality(RunningPriceTasks(t)) <= 1

\* C39: whenever start_tracking returns True for a token, a monitor loop is
\* running for that token afterwards: also when the token's stop-loss has
\* triggered and its monitor has ended, where the call begins a fresh
\* tracking session (a dict whose stop-loss has not triggered).
C39_StartedMeansMonitored ==
    (ret.op = "start_tracking" /\ ret.success) =>
       /\ RunningPriceTasks(ret.args) # {}
       /\ ret.args \in DOMAIN tracking_signals
       /\ ~tracking_infos[tracking_signals[ret.args]].sl_triggered

(***************************************************************************)
(* Properties of the exits of Trader.monitor_trade                         *)
(***************************************************************************)
\* the sale of level k that _execute_exit completed for task j
ExitedLevel(j, k) ==
    \E e \in BagToSet(exits) :
       /\ e.task = j
       /\ e.exit_type = <<"take_profit", monitors[j].take_profit_levels[k]>>

\* task j is inside the _execute_exit call of level k
InExit(j, k) == monitors[j].pc = "exit_take_profit" /\ monitors[j].level = k

PortionsSold(j) ==
    Cardinality({k \in 1..Len(monitors[j].take_profit_triggered) :
                    ExitedLevel(j, k) \/ InExit(j, k)})

\* C40: in monitor_trade a take-profit level is marked triggered and the
\* remaining amount is reduced only when the level's _execute_exit succeeded
\* (or is still running), and a trade leaves active_trades only after an exit
\* of it succeeded: when an exit fails the level stays untriggered, the
\* remaining amount is as it was and the trade stays active.  A task that was
\* cancelled is not looked at.
MarkedOnlyIfExited ==
    \A j \in 1..Len(monitors) : monitors[j].pc # "cancelled" =>
       \A k \in 1..Len(monitors[j].take_profit_triggered) :
          monitors[j].take_profit_triggered[k] => (ExitedLevel(j, k) \/ InExit(j, k))

ReducedOnlyIfExited ==
    \A j \in 1..Len(monitors) :
       (monitors[j].take_profit_levels # << >> /\ monitors[j].pc # "cancelled") =>
          monitors[j].remaining_amount =
             RSub(monitors[j].amount,
                  RMul(R(PortionsSold(j), 1),
                       RDiv(monitors[j].amount, R(Len(monitors[j].take_profit_levels), 1))))

\* a task that has read its trade from active_trades finds it gone
RemovedOnlyIfExited ==
    \A j \in 1..Len(monitors) :
       (monitors[j].take_profit_triggered # << >>
           /\ monitors[j].trade_id \notin DOMAIN active_trades) =>
          \E e \in BagToSet(exits) : e.trade_id = monitors[j].trade_id

C40_ExitFailureChangesNothing ==
    MarkedOnlyIfExited /\ ReducedOnlyIfExited /\ RemovedOnlyIfExited

(***************************************************************************)
(* Properties of concurrent calls on one ledger                            *)
(***************************************************************************)
\* the orders in which the tasks of S can run one after another
Orders(S) ==
    {o \in [1..Cardinality(S) -> S] : \A a, b \in 1..Cardinality(S) : o[a] = o[b] => a = b}

\* the numbers of the task's run on L are within the model's arithmetic
InRange(L, task) ==
    /\ Representable(L.virtual_balance)
    /\ task.op = "close_paper_position" =>
          \A sym \in FindPosition(L.positions, task.arg) :
             Representable(L.positions[sym].value_usd)

\* the ledger and the file after the tasks of `order` ran one after another,
\* each to its end, from `state`; ok is FALSE for a run that is out of range
RECURSIVE Sequentially(_, _)
Sequentially(state, order) ==
    IF order = << >> \/ ~state.ok THEN state
    ELSE IF ~InRange(state.L, tasks[Head(order)]) THEN [state EXCEPT !.ok = FALSE]
    ELSE LET r == CoroutineBody(state.L, state.file, tasks[Head(order)], now)
         IN Sequentially([ok |-> TRUE, L |-> r.L, file |-> r.file], Tail(order))

\* C32: the mutations of one ledger are serialized.  Whatever the order in
\* which the event loop runs opens and closes that were issued concurrently,
\* the balance, the open positions, the history (and the rest of the ledger
\* and its snapshot) are those of running the same calls one after another
\* in some order: no call is suspended between reading the balance and
\* writing it.
C32_Serializable ==
    before_tasks # << >> =>
       \E order \in Orders({i \in 1..Len(tasks) : tasks[i].pc = "done"}) :
          Sequentially([ok |-> TRUE, L |-> before_tasks[1].L, file |-> before_tasks[1].file],
                       order) = [ok |-> TRUE, L |-> Ledger, file |-> file]

\* an open and a close were issued together, the later one ran first, and
\* both succeeded
C32_Witness ==
    /\ Len(tasks) = 2
    /\ tasks[1].ran = 2 /\ tasks[2].ran = 1
    /\ tasks[1].op # tasks[2].op
    /\ tasks[1].result.success /\ tasks[2].result.success
    /\ virtual_balance # before_tasks[1].L.virtual_balance

====
